---- MODULE Spec2Model ----
(***************************************************************************)
(* Wallet ledger of backend/server.py: the document collections the        *)
(* monetary endpoints read and write, and one action per endpoint.         *)
(* Amounts are whole coins; request values are drawn from sets on which    *)
(* the handlers' percentage arithmetic is exact.                           *)
(***************************************************************************)
EXTENDS Integers, Sequences, FiniteSets, TLC

VARIABLES
    users,                \* db.users: user_id -> user document
    wallets,              \* db.wallets: user_id -> wallet document
    vip_status,           \* db.vip_status: user_id -> VIP document
    user_sessions,        \* db.user_sessions, in insertion order
    wallet_transactions,  \* db.wallet_transactions, in insertion order
    notifications,        \* db.notifications, in insertion order
    charity_wallet,       \* db.charity_wallet: total_balance of the single document
    payment_methods,      \* db.payment_methods, in insertion order
    withdrawals,          \* db.withdrawals, in insertion order
    talents,              \* db.talents: user_id -> talent document
    lucky_wallet_challenges, \* db.lucky_wallet_challenges, in insertion order
    inserted,             \* documents inserted per write-only collection
    logic_pk_challenges,  \* db.logic_pk_challenges, in insertion order
    logic_pk_history,     \* db.logic_pk_history, in insertion order
    inflight,             \* requests suspended at an await: id -> handler state
    last,                 \* the request just served and its HTTP status
    remaining,            \* number of requests the run may still serve
    now,                  \* datetime.now(timezone.utc), in days
    agency_status,        \* db.agency_status, in insertion order
    referrals,            \* db.referrals, in insertion order
    course_enrollments,   \* db.course_enrollments, in insertion order
    courses_completed,    \* db.education_profiles: user_id -> courses_completed
    star_exchanges,       \* db.star_exchanges, in insertion order
    platform_stats,       \* db.platform_stats: the counters of the document "main"
    activity_sessions,    \* db.activity_sessions, in insertion order
    host_sessions,        \* db.host_sessions, in insertion order
    host_profiles         \* db.host_profiles: user_id -> host profile

vars == <<users, wallets, vip_status, user_sessions, wallet_transactions,
          notifications, charity_wallet, payment_methods, withdrawals, talents,
          lucky_wallet_challenges, inserted, logic_pk_challenges,
          logic_pk_history, inflight, last, remaining, now, agency_status,
          referrals, course_enrollments, courses_completed, star_exchanges,
          platform_stats, activity_sessions, host_sessions, host_profiles>>

\* the collections a handler of one family leaves alone
authColl == <<users, user_sessions>>
withdrawalColl == <<payment_methods, withdrawals>>
gameColl == <<lucky_wallet_challenges, inserted>>
pkColl == <<logic_pk_challenges, logic_pk_history>>
agencyColl == <<agency_status, referrals>>
eduColl == <<course_enrollments, courses_completed>>
exchangeColl == <<star_exchanges, platform_stats>>
hostColl == <<host_sessions, host_profiles>>
engagementColl == <<eduColl, exchangeColl, activity_sessions, hostColl>>

\* every collection of the database
Ledger == <<users, wallets, vip_status, user_sessions, wallet_transactions,
            notifications, charity_wallet, payment_methods, withdrawals, talents,
            lucky_wallet_challenges, inserted, logic_pk_challenges,
            logic_pk_history, agency_status, referrals, engagementColl>>

\* ------------------------------------------------------------------ bounds
MaxRequests == 4
MaxDebitRequests == 5
MaxPKRequests == 7
MaxChallenges == 1
MaxWdRequests == 7
MaxWithdrawals == 1
MaxRaceRequests == 4
MaxInflight == 2
MaxTierRequests == 2
MaxBetRequests == 4
MaxNotifRequests == 5
MaxNotificationId == 3
MaxAuthRequests == 4
MaxNow == 14
MaxReferralRequests == 6
MaxHostRequests == 4
MaxHostDay == 7
MaxActivityRequests == 24
MaxActivityDay == 1
TrackedMinutes == 89
MaxStarRequests == 12
MaxStarDay == 10
FundingDeposits == 120
MaxLessonRequests == 23
MaxCreditRequests == 4
MaxPKFlowRequests == 6
MaxGiftRequests == 4

\* ------------------------------------------------------------ request values
Emails == {"a@x", "b@x"}
DepositAmounts == {0, 500, 100000, 100001}
WithdrawAmounts == {0, 300, 2000}
TransferRequests ==
    { [amount |-> 300, from |-> "coins", to |-> "withdrawable"],
      [amount |-> 500, from |-> "coins", to |-> "stars"],
      [amount |-> 500, from |-> "coins", to |-> "coins"],
      [amount |-> 200, from |-> "bonus", to |-> "coins"],
      [amount |-> 300, from |-> "coins", to |-> "gold"] }
ConvertAmounts == {0, 50, 1000}
GiftRequests ==
    { [gift_id |-> "birthday_cake", receiver_id |-> "user_2", quantity |-> 1],
      [gift_id |-> "birthday_cake", receiver_id |-> "user_1", quantity |-> 1],
      [gift_id |-> "diamond_ring", receiver_id |-> "user_2", quantity |-> 3],
      [gift_id |-> "birthday_cake", receiver_id |-> "user_2", quantity |-> -1],
      [gift_id |-> "teddy", receiver_id |-> "user_2", quantity |-> 1] }
LuckyBets == {0, 20, 2000}
RandomNumbers == {45, 46}
MindGameRequests ==
    { [game_id |-> "memory_match", score |-> 100, time_taken_seconds |-> 30],
      [game_id |-> "memory_match", score |-> -2100, time_taken_seconds |-> 200],
      [game_id |-> "chess", score |-> 100, time_taken_seconds |-> 30] }
AdBudgets == {400, 5000}
WithdrawalAmounts == {50000, 100001}
DebitTransfers ==
    { [amount |-> 100000, from |-> "coins", to |-> "stars"],
      [amount |-> 300, from |-> "coins", to |-> "withdrawable"],
      [amount |-> 300, from |-> "bonus", to |-> "coins"] }
DebitWithdrawAmounts == {300, 301}
DebitConvertAmounts == {50, 200000}
DebitGifts ==
    { [gift_id |-> "birthday_cake", receiver_id |-> "user_2", quantity |-> 1],
      [gift_id |-> "diamond_ring", receiver_id |-> "user_2", quantity |-> 3] }
DebitBets == {20, 2000}
RaceEmails == {"a@x"}
RaceWithdrawAmounts == {200, 300}
RaceBets == {600, 1000}
VipRecharges == {0, 1, 499, 500, 501, 1999, 2000, 2001, 4999, 5000, 5001,
                 14999, 15000, 49999, 50000, 100000}
LearningHours == {0, 1, 9, 10, 11, 24, 25, 26, 49, 50, 99, 100, 199, 200, 499,
                  500, 1000}
TotalEarnings ==
    {<<m, u>> : m \in {0, 2, 10, 50, 150}, u \in {0, 1, 999999}}
    \cup {<<1, 999999>>, <<999999, 999999>>, <<1000000, 0>>, <<1000000, 1>>}
\* <<bet_amount, random_number>>: bets at and next to min_bet and max_bet
LuckyBoundaryPlays == {<<9, 45>>, <<10, 45>>, <<100, 45>>, <<100, 46>>,
                       <<100000, 45>>, <<100000, 46>>, <<100001, 46>>}
PKBoundaryBets == {9, 10, 1000, 1001}
PKOpponents == {"user_1", "user_2"}
PKBets == {5, 10, 100}
PKAnswers == {"2000", "100", ""}

\* ------------------------------------------------------------------ helpers
NoRequest == [op |-> "none", user |-> "", amount |-> 0, aux |-> "", status |-> 0]

\* a field that is absent from a document, or None
None == "None"

Respond(op, u, a, aux, st) ==
    /\ last' = [op |-> op, user |-> u, amount |-> a, aux |-> aux, status |-> st]
    /\ remaining > 0
    /\ remaining' = remaining - 1
    /\ now' = now

\* an HTTPException or an unhandled exception raised before any write
Reject(op, u, a, aux, st) ==
    /\ Respond(op, u, a, aux, st)
    /\ UNCHANGED <<users, wallets, vip_status, user_sessions, wallet_transactions,
                   notifications, charity_wallet, payment_methods, withdrawals,
                   talents, lucky_wallet_challenges, inserted, pkColl, agencyColl, engagementColl, inflight>>

\* timedelta(days=7) of exchange_session
SESSION_DAYS == 7

\* find_one({"session_token": t}): the first document inserted with the token
SessionsOf(session_token) ==
    {i \in 1..Len(user_sessions) :
        user_sessions[i].session_token = session_token}
FirstSession(session_token) ==
    CHOOSE i \in SessionsOf(session_token) :
        \A j \in SessionsOf(session_token) : i <= j

\* get_current_user without the expiry test
get_current_user_no_expiry(session_token) ==
    IF session_token = ""
    THEN [status |-> 401, user_id |-> "", detail |-> "Not authenticated"]
    ELSE IF SessionsOf(session_token) = {}
    THEN [status |-> 401, user_id |-> "", detail |-> "Invalid session"]
    ELSE LET session == user_sessions[FirstSession(session_token)] IN
         IF session.user_id \notin DOMAIN users
         THEN [status |-> 401, user_id |-> "", detail |-> "User not found"]
         ELSE [status |-> 200, user_id |-> session.user_id, detail |-> ""]

\* the dependency of every authenticated endpoint: the token of the cookie or
\* of the Authorization header ("" when the request carries none), the session
\* stored under it, its expiry, and the user it refers to
get_current_user(session_token) ==
    IF session_token = ""
    THEN [status |-> 401, user_id |-> "", detail |-> "Not authenticated"]
    ELSE IF SessionsOf(session_token) = {}
    THEN [status |-> 401, user_id |-> "", detail |-> "Invalid session"]
    ELSE LET session == user_sessions[FirstSession(session_token)] IN
         IF session.expires_at < now
         THEN [status |-> 401, user_id |-> "", detail |-> "Session expired"]
         ELSE IF session.user_id \notin DOMAIN users
         THEN [status |-> 401, user_id |-> "", detail |-> "User not found"]
         ELSE [status |-> 200, user_id |-> session.user_id, detail |-> ""]

\* get_current_user succeeds for u under some token a client holds
Authenticated(u) ==
    /\ u \in DOMAIN users
    /\ \E i \in 1..Len(user_sessions) :
          /\ user_sessions[i].user_id = u
          /\ ~(user_sessions[i].expires_at < now)
          /\ \A j \in 1..(i - 1) :
                user_sessions[j].session_token # user_sessions[i].session_token

\* update_one({"user_id": u}, {"$inc": ...}): no document, no change
IncWallet(w, u, field, delta) ==
    IF u \in DOMAIN w THEN [w EXCEPT ![u][field] = @ + delta] ELSE w

\* the wallet document of a new user; held_balance is absent until a $inc
\* creates it, and $inc reads an absent field as 0
NewWallet ==
    [coins_balance |-> 1000, stars_balance |-> 0, bonus_balance |-> 100,
     withdrawable_balance |-> 0, total_deposited |-> 0, total_withdrawn |-> 0,
     held_balance |-> 0]

Txn(u, type, amount, currency, status) ==
    [user_id |-> u, transaction_type |-> type, amount |-> amount,
     currency_type |-> currency, status |-> status]

Notif(u, type) ==
    [notification_id |-> Len(notifications) + 1, user_id |-> u,
     notification_type |-> type, is_read |-> FALSE]

\* collections the handlers only insert into and never read back
WriteOnlyCollections == {"charity_contributions", "gift_records",
                         "mind_game_records", "education_profiles",
                         "talent_ads", "transactions",
                         "learning_sessions"}

Inserted(c) == [inserted EXCEPT ![c] = @ + 1]

\* x * p / 100 and int(): the request values keep the quotients whole
PercentOf(x, p) == (x * p) \div 100
IntTrunc(n, d) == IF n >= 0 THEN n \div d ELSE -((-n) \div d)
Min(a, b) == IF a <= b THEN a ELSE b
Max(a, b) == IF a >= b THEN a ELSE b

UserByEmail(e) == {u \in DOMAIN users : users[u].email = e}

\* user_id = f"user_{uuid}": a fresh identifier for each new user
UserIds == <<"user_1", "user_2", "user_3">>
NewUserId == UserIds[Cardinality(DOMAIN users) + 1]

\* ------------------------------------------------------------------ initial
EmptyDb ==
    /\ users = <<>>
    /\ wallets = <<>>
    /\ vip_status = <<>>
    /\ user_sessions = <<>>
    /\ wallet_transactions = <<>>
    /\ notifications = <<>>
    /\ charity_wallet = 0
    /\ payment_methods = <<>>
    /\ withdrawals = <<>>
    /\ talents = <<>>
    /\ lucky_wallet_challenges = <<>>
    /\ inserted = [c \in WriteOnlyCollections |-> 0]
    /\ logic_pk_challenges = <<>>
    /\ logic_pk_history = <<>>
    /\ inflight = <<>>
    /\ last = NoRequest
    /\ now = 0
    /\ agency_status = <<>>
    /\ referrals = <<>>
    /\ course_enrollments = <<>>
    /\ courses_completed = <<>>
    /\ star_exchanges = <<>>
    /\ platform_stats = [exchange_fees_collected |-> 0,
                         total_stars_exchanged |-> 0, total_coins_issued |-> 0]
    /\ activity_sessions = <<>>
    /\ host_sessions = <<>>
    /\ host_profiles = <<>>

Init == EmptyDb /\ remaining = MaxRequests

\* ------------------------------------------------------------ auth endpoints
exchange_session(e, tok) ==
    /\ IF UserByEmail(e) # {}
       THEN /\ user_sessions' = Append(user_sessions,
                 [user_id |-> CHOOSE u \in UserByEmail(e) : TRUE,
                  session_token |-> tok,
                  expires_at |-> now + SESSION_DAYS])
            /\ UNCHANGED <<users, wallets, vip_status, notifications>>
       ELSE /\ users' = (NewUserId :> [email |-> e, via |-> "session"]) @@ users
            /\ wallets' = (NewUserId :> NewWallet) @@ wallets
            /\ vip_status' = (NewUserId :> [vip_level |-> 0, total_recharged |-> 0,
                                            is_active |-> FALSE]) @@ vip_status
            /\ notifications' = Append(notifications, Notif(NewUserId, "welcome"))
            /\ user_sessions' = Append(user_sessions,
                 [user_id |-> NewUserId, session_token |-> tok,
                  expires_at |-> now + SESSION_DAYS])
    /\ Respond("exchange_session", "", 0, e, 200)
    /\ UNCHANGED <<wallet_transactions, charity_wallet, withdrawalColl, talents,
                   gameColl, pkColl, agencyColl, engagementColl, inflight>>

free_user_registration(e) ==
    /\ IF UserByEmail(e) # {}
       THEN UNCHANGED users
       ELSE users' = (NewUserId :> [email |-> e, via |-> "free"]) @@ users
    /\ Respond("free_user_registration", "", 0, e, 200)
    /\ UNCHANGED <<wallets, vip_status, user_sessions, wallet_transactions,
                   notifications, charity_wallet, withdrawalColl, talents,
                   gameColl, pkColl, agencyColl, engagementColl, inflight>>

\* ---------------------------------------------------------- wallet endpoints
\* deposit with the cap test written >= instead of >
deposit_cap_exclusive(u, a) ==
    /\ Authenticated(u)
    /\ IF a <= 0 \/ a >= 100000
       THEN Reject("deposit", u, a, "", 400)
       ELSE /\ wallets' = IncWallet(IncWallet(wallets, u, "coins_balance", a),
                                    u, "total_deposited", a)
            /\ wallet_transactions' = Append(wallet_transactions,
                   Txn(u, "deposit", a, "coins", "completed"))
            /\ IF u \in DOMAIN vip_status
               THEN /\ vip_status' = [vip_status EXCEPT ![u].total_recharged = @ + a]
                    /\ notifications' = Append(notifications, Notif(u, "wallet"))
                    /\ Respond("deposit", u, a, "", 200)
               ELSE /\ UNCHANGED <<vip_status, notifications>>
                    /\ Respond("deposit", u, a, "", 500)
            /\ UNCHANGED <<authColl, pkColl, agencyColl, engagementColl, inflight, charity_wallet, withdrawalColl, talents, gameColl>>

deposit(u, a) ==
    /\ Authenticated(u)
    /\ IF a <= 0 \/ a > 100000
       THEN Reject("deposit", u, a, "", 400)
       ELSE /\ wallets' = IncWallet(IncWallet(wallets, u, "coins_balance", a),
                                    u, "total_deposited", a)
            /\ wallet_transactions' = Append(wallet_transactions,
                   Txn(u, "deposit", a, "coins", "completed"))
            /\ IF u \in DOMAIN vip_status
               THEN /\ vip_status' = [vip_status EXCEPT ![u].total_recharged = @ + a]
                    /\ notifications' = Append(notifications, Notif(u, "wallet"))
                    /\ Respond("deposit", u, a, "", 200)
               ELSE \* vip_status["total_recharged"] on None raises TypeError
                    /\ UNCHANGED <<vip_status, notifications>>
                    /\ Respond("deposit", u, a, "", 500)
            /\ UNCHANGED <<authColl, pkColl, agencyColl, engagementColl, inflight, charity_wallet, withdrawalColl, talents, gameColl>>

\* withdraw with the balance test on coins_balance instead of
\* withdrawable_balance
withdraw_checks_coins(u, a) ==
    /\ Authenticated(u)
    /\ IF a <= 0 THEN Reject("withdraw", u, a, "", 400)
       ELSE IF u \notin DOMAIN wallets
       THEN Reject("withdraw", u, a, "", 500)
       ELSE IF wallets[u].coins_balance < a
       THEN Reject("withdraw", u, a, "", 400)
       ELSE /\ wallets' = IncWallet(IncWallet(wallets, u, "withdrawable_balance", -a),
                                    u, "total_withdrawn", a)
            /\ wallet_transactions' = Append(wallet_transactions,
                   Txn(u, "withdrawal", -a, "coins", "pending"))
            /\ notifications' = Append(notifications, Notif(u, "wallet"))
            /\ Respond("withdraw", u, a, "", 200)
            /\ UNCHANGED <<authColl, pkColl, agencyColl, engagementColl, inflight, vip_status, charity_wallet, withdrawalColl,
                           talents, gameColl>>

withdraw(u, a) ==
    /\ Authenticated(u)
    /\ IF a <= 0 THEN Reject("withdraw", u, a, "", 400)
       ELSE IF u \notin DOMAIN wallets
       THEN Reject("withdraw", u, a, "", 500)   \* wallet[...] on None
       ELSE IF wallets[u].withdrawable_balance < a
       THEN Reject("withdraw", u, a, "", 400)
       ELSE /\ wallets' = IncWallet(IncWallet(wallets, u, "withdrawable_balance", -a),
                                    u, "total_withdrawn", a)
            /\ wallet_transactions' = Append(wallet_transactions,
                   Txn(u, "withdrawal", -a, "coins", "pending"))
            /\ notifications' = Append(notifications, Notif(u, "wallet"))
            /\ Respond("withdraw", u, a, "", 200)
            /\ UNCHANGED <<authColl, pkColl, agencyColl, engagementColl, inflight, vip_status, charity_wallet, withdrawalColl,
                           talents, gameColl>>

valid_balances == {"coins_balance", "bonus_balance", "stars_balance",
                   "withdrawable_balance"}

BalanceField(name) ==
    CASE name = "coins" -> "coins_balance"
      [] name = "bonus" -> "bonus_balance"
      [] name = "stars" -> "stars_balance"
      [] name = "withdrawable" -> "withdrawable_balance"
      [] OTHER -> "invalid"

\* the $inc document {from_field: -amount, to_field: amount}: with equal keys
\* the dict literal keeps the second value only
TransferInc(w, u, from_field, to_field, a) ==
    IF from_field = to_field
    THEN IncWallet(w, u, to_field, a)
    ELSE IncWallet(IncWallet(w, u, from_field, -a), u, to_field, a)

transfer_balance(u, a, from, to) ==
    /\ Authenticated(u)
    /\ LET from_field == BalanceField(from)
           to_field == BalanceField(to)
           aux == <<from, to>>
       IN IF from_field \notin valid_balances \/ to_field \notin valid_balances
          THEN Reject("transfer_balance", u, a, aux, 400)
          ELSE IF a <= 0 THEN Reject("transfer_balance", u, a, aux, 400)
          ELSE IF u \notin DOMAIN wallets
          THEN Reject("transfer_balance", u, a, aux, 500)
          ELSE IF wallets[u][from_field] < a
          THEN Reject("transfer_balance", u, a, aux, 400)
          ELSE /\ wallets' = TransferInc(wallets, u, from_field, to_field, a)
               /\ Respond("transfer_balance", u, a, aux, 200)
               /\ UNCHANGED <<authColl, pkColl, agencyColl, engagementColl, inflight, vip_status, wallet_transactions,
                              notifications, charity_wallet, withdrawalColl,
                              talents, gameColl>>

STARS_TO_COINS_FEE == 8

convert_stars_to_coins(u, a) ==
    /\ Authenticated(u)
    /\ IF a <= 0 THEN Reject("convert_stars_to_coins", u, a, "", 400)
       ELSE IF u \notin DOMAIN wallets
       THEN Reject("convert_stars_to_coins", u, a, "", 500)
       ELSE IF wallets[u].stars_balance < a
       THEN Reject("convert_stars_to_coins", u, a, "", 400)
       ELSE LET fee_amount == PercentOf(a, STARS_TO_COINS_FEE)
                coins_received == a - fee_amount
            IN /\ wallets' = IncWallet(IncWallet(wallets, u, "stars_balance", -a),
                                       u, "coins_balance", coins_received)
               /\ wallet_transactions' = Append(wallet_transactions,
                      Txn(u, "stars_conversion", coins_received, "coins", "completed"))
               /\ Respond("convert_stars_to_coins", u, a, "", 200)
               /\ UNCHANGED <<authColl, pkColl, agencyColl, engagementColl, inflight, vip_status, notifications, charity_wallet,
                              withdrawalColl, talents, gameColl>>

\* ------------------------------------------------------ withdrawal endpoints
WithdrawalStatus == {"pending", "processing", "completed", "rejected",
                     "cancelled"}

min_stars_required == 100000

save_payment_method(u, method_type, has_details, is_default) ==
    /\ Authenticated(u)
    /\ IF ~(method_type \in {"bank", "upi"} /\ has_details)
       THEN Reject("save_payment_method", u, 0, method_type, 400)
       ELSE /\ payment_methods' = Append(
                   [i \in 1..Len(payment_methods) |->
                       IF is_default /\ payment_methods[i].user_id = u
                       THEN [payment_methods[i] EXCEPT !.is_default = FALSE]
                       ELSE payment_methods[i]],
                   [method_id |-> Len(payment_methods) + 1, user_id |-> u,
                    method_type |-> method_type, is_default |-> is_default])
            /\ Respond("save_payment_method", u, 0, method_type, 200)
            /\ UNCHANGED <<authColl, pkColl, agencyColl, engagementColl, inflight, wallets, vip_status, wallet_transactions,
                           notifications, charity_wallet, withdrawals, talents,
                           gameColl>>

HasPaymentMethod(u, pm) ==
    \E i \in 1..Len(payment_methods) :
        payment_methods[i].method_id = pm /\ payment_methods[i].user_id = u

create_withdrawal_request(u, a, pm) ==
    /\ Authenticated(u)
    /\ IF u \notin DOMAIN wallets
       THEN Reject("create_withdrawal_request", u, a, pm, 500)
       ELSE IF wallets[u].stars_balance < min_stars_required
       THEN Reject("create_withdrawal_request", u, a, pm, 400)
       ELSE IF a <= 0 THEN Reject("create_withdrawal_request", u, a, pm, 400)
       ELSE IF a > wallets[u].stars_balance
       THEN Reject("create_withdrawal_request", u, a, pm, 400)
       ELSE IF ~HasPaymentMethod(u, pm)
       THEN Reject("create_withdrawal_request", u, a, pm, 404)
       ELSE /\ withdrawals' = Append(withdrawals,
                   [withdrawal_id |-> Len(withdrawals) + 1, user_id |-> u,
                    amount |-> a, status |-> "pending", face_verified |-> FALSE])
            /\ wallets' = IncWallet(wallets, u, "stars_balance", -a)
            /\ wallet_transactions' = Append(wallet_transactions,
                   Txn(u, "withdrawal", -a, "stars", "pending"))
            /\ notifications' = Append(notifications, Notif(u, "withdrawal"))
            /\ Respond("create_withdrawal_request", u, a, pm, 200)
            /\ UNCHANGED <<authColl, pkColl, agencyColl, engagementColl, inflight, vip_status, charity_wallet, payment_methods,
                           talents, gameColl>>

verify_face_for_withdrawal(u, wid) ==
    /\ Authenticated(u)
    /\ IF ~(wid \in 1..Len(withdrawals) /\ withdrawals[wid].user_id = u)
       THEN Reject("verify_face_for_withdrawal", u, 0, wid, 404)
       ELSE IF withdrawals[wid].status # "pending"
       THEN Reject("verify_face_for_withdrawal", u, 0, wid, 400)
       ELSE /\ withdrawals' = [withdrawals EXCEPT ![wid].face_verified = TRUE,
                                                  ![wid].status = "processing"]
            /\ notifications' = Append(notifications, Notif(u, "withdrawal"))
            /\ Respond("verify_face_for_withdrawal", u, 0, wid, 200)
            /\ UNCHANGED <<authColl, pkColl, agencyColl, engagementColl, inflight, wallets, vip_status, wallet_transactions,
                           charity_wallet, payment_methods, talents, gameColl>>

\* -------------------------------------------------------------------- gifts
\* the entries of SIGNATURE_GIFTS the requests name: gift_id -> price
SIGNATURE_GIFTS == [birthday_cake |-> 100, diamond_ring |-> 500]

vip_gift_charity_percent == 2

send_gift(u, gift_id, receiver_id, quantity) ==
    /\ Authenticated(u)
    /\ LET aux == <<gift_id, receiver_id>>
       IN IF gift_id \notin DOMAIN SIGNATURE_GIFTS
          THEN Reject("send_gift", u, quantity, aux, 404)
          ELSE IF receiver_id \notin DOMAIN users
          THEN Reject("send_gift", u, quantity, aux, 404)
          ELSE IF receiver_id = u
          THEN Reject("send_gift", u, quantity, aux, 400)
          ELSE IF u \notin DOMAIN wallets
          THEN Reject("send_gift", u, quantity, aux, 500)
          ELSE LET total_cost == SIGNATURE_GIFTS[gift_id] * quantity
                   charity_amount == PercentOf(total_cost, vip_gift_charity_percent)
                   receiver_amount == total_cost - charity_amount
               IN IF wallets[u].coins_balance < total_cost
                  THEN Reject("send_gift", u, quantity, aux, 400)
                  ELSE /\ wallets' = IncWallet(
                              IncWallet(wallets, u, "coins_balance", -total_cost),
                              receiver_id, "stars_balance", receiver_amount)
                       /\ charity_wallet' = charity_wallet + charity_amount
                       /\ inserted' = [inserted EXCEPT
                              !["charity_contributions"] = @ + 1,
                              !["gift_records"] = @ + 1]
                       /\ wallet_transactions' = wallet_transactions \o
                              << Txn(u, "gift_sent", -total_cost, "coins", "completed"),
                                 Txn(receiver_id, "gift_received", receiver_amount,
                                     "stars", "completed") >>
                       /\ notifications' = Append(notifications,
                                                  Notif(receiver_id, "gift"))
                       /\ Respond("send_gift", u, quantity, aux, 200)
                       /\ UNCHANGED <<authColl, pkColl, agencyColl, engagementColl, inflight, vip_status, withdrawalColl, talents,
                                      lucky_wallet_challenges>>

\* ------------------------------------------------------- charity lucky wallet
winning_rate == 45
win_user_percent == 70
win_charity_percent == 30
lose_charity_percent == 45
lose_platform_percent == 55
min_bet == 10
max_bet == 100000

\* the amounts of one play with the winner credited won_amount on top of the
\* bet
LuckyOutcomeCredit(bet_amount, random_number) ==
    IF random_number <= winning_rate
    THEN [result |-> "win",
          won_amount |-> PercentOf(bet_amount, win_user_percent),
          charity_amount |-> PercentOf(bet_amount, win_charity_percent),
          platform_amount |-> 0,
          balance_change |-> PercentOf(bet_amount, win_user_percent)]
    ELSE [result |-> "lose",
          won_amount |-> 0,
          charity_amount |-> PercentOf(bet_amount, lose_charity_percent),
          platform_amount |-> PercentOf(bet_amount, lose_platform_percent),
          balance_change |-> -bet_amount]

\* the amounts of one play: (bet, random_number) -> game record fields
LuckyOutcome(bet_amount, random_number) ==
    IF random_number <= winning_rate
    THEN [result |-> "win",
          won_amount |-> PercentOf(bet_amount, win_user_percent),
          charity_amount |-> PercentOf(bet_amount, win_charity_percent),
          platform_amount |-> 0,
          balance_change |-> PercentOf(bet_amount, win_user_percent) - bet_amount]
    ELSE [result |-> "lose",
          won_amount |-> 0,
          charity_amount |-> PercentOf(bet_amount, lose_charity_percent),
          platform_amount |-> PercentOf(bet_amount, lose_platform_percent),
          balance_change |-> -bet_amount]

play_lucky_wallet(u, bet_amount, random_number) ==
    /\ Authenticated(u)
    /\ IF bet_amount < min_bet \/ bet_amount > max_bet
       THEN Reject("play_lucky_wallet", u, bet_amount, random_number, 400)
       ELSE IF u \notin DOMAIN wallets
       THEN Reject("play_lucky_wallet", u, bet_amount, random_number, 404)
       ELSE IF wallets[u].coins_balance < bet_amount
       THEN Reject("play_lucky_wallet", u, bet_amount, random_number, 400)
       ELSE LET o == LuckyOutcome(bet_amount, random_number)
                new_balance == wallets[u].coins_balance + o.balance_change
            IN /\ wallets' = [wallets EXCEPT ![u].coins_balance = new_balance]
               /\ charity_wallet' = charity_wallet + o.charity_amount
               /\ lucky_wallet_challenges' = Append(lucky_wallet_challenges,
                      [user_id |-> u, bet_amount |-> bet_amount,
                       result |-> o.result, random_number |-> random_number,
                       won_amount |-> o.won_amount,
                       charity_amount |-> o.charity_amount,
                       platform_amount |-> o.platform_amount,
                       balance_change |-> o.balance_change,
                       new_balance |-> new_balance])
               /\ inserted' = Inserted("charity_contributions")
               /\ wallet_transactions' = Append(wallet_transactions,
                      Txn(u, IF o.result = "lose" THEN "lucky_wallet_bet"
                                                  ELSE "lucky_wallet_win",
                          o.balance_change, "coins", "completed"))
               /\ notifications' = Append(notifications, Notif(u, "lucky_wallet"))
               /\ Respond("play_lucky_wallet", u, bet_amount, random_number, 200)
               /\ UNCHANGED <<authColl, pkColl, agencyColl, engagementColl, inflight, vip_status, withdrawalColl, talents>>

\* ---------------------------------------------------------------- mind games
\* the entries of MIND_GAMES the requests name
MIND_GAMES == [memory_match |-> [coins_reward |-> 50, time_limit_seconds |-> 120]]

\* earned_reward of play_mind_game; score_percent = min(100, score / 100 * 100)
MindGameReward(game, score, time_taken_seconds) ==
    LET score_percent == Min(100, score)
        earned_reward == IntTrunc(game.coins_reward * score_percent, 100)
    IN IF 2 * time_taken_seconds < game.time_limit_seconds
       THEN IntTrunc(earned_reward * 3, 2)
       ELSE earned_reward

play_mind_game(u, game_id, score, time_taken_seconds) ==
    /\ Authenticated(u)
    /\ IF game_id \notin DOMAIN MIND_GAMES
       THEN Reject("play_mind_game", u, score, game_id, 404)
       ELSE LET earned_reward ==
                    MindGameReward(MIND_GAMES[game_id], score, time_taken_seconds)
            IN /\ wallets' = IncWallet(wallets, u, "coins_balance", earned_reward)
               /\ inserted' = [inserted EXCEPT !["mind_game_records"] = @ + 1,
                                               !["education_profiles"] = @ + 1]
               /\ wallet_transactions' = Append(wallet_transactions,
                      Txn(u, "mind_game_reward", earned_reward, "coins", "completed"))
               /\ Respond("play_mind_game", u, score, game_id, 200)
               /\ UNCHANGED <<authColl, pkColl, agencyColl, engagementColl, inflight, vip_status, notifications, charity_wallet,
                              withdrawalColl, talents, lucky_wallet_challenges>>

\* ------------------------------------------------------------------- talents
TALENT_REGISTRATION_FEE == 1

register_as_talent(u) ==
    /\ Authenticated(u)
    /\ IF u \in DOMAIN talents
       THEN Reject("register_as_talent", u, 0, "", 200)
       ELSE /\ talents' = (u :> [registration_fee_paid |-> FALSE,
                                 status |-> "pending"]) @@ talents
            /\ Respond("register_as_talent", u, 0, "", 200)
            /\ UNCHANGED <<authColl, pkColl, agencyColl, engagementColl, inflight, wallets, vip_status, wallet_transactions,
                           notifications, charity_wallet, withdrawalColl, gameColl>>

pay_registration_fee(u, talent_id) ==
    /\ Authenticated(u)
    /\ IF ~(talent_id \in DOMAIN talents /\ talent_id = u)
       THEN Reject("pay_registration_fee", u, 0, talent_id, 404)
       ELSE IF talents[u].registration_fee_paid
       THEN Reject("pay_registration_fee", u, 0, talent_id, 200)
       ELSE IF u \notin DOMAIN wallets
               \/ wallets[u].coins_balance < TALENT_REGISTRATION_FEE
       THEN Reject("pay_registration_fee", u, 0, talent_id, 400)
       ELSE /\ wallets' = IncWallet(wallets, u, "coins_balance",
                                    -TALENT_REGISTRATION_FEE)
            /\ talents' = [talents EXCEPT ![u].registration_fee_paid = TRUE,
                                          ![u].status = "active"]
            /\ inserted' = Inserted("transactions")
            /\ Respond("pay_registration_fee", u, 0, talent_id, 200)
            /\ UNCHANGED <<authColl, pkColl, agencyColl, engagementColl, inflight, vip_status, wallet_transactions, notifications,
                           charity_wallet, withdrawalColl, lucky_wallet_challenges>>

create_talent_ad(u, budget) ==
    /\ Authenticated(u)
    /\ IF ~(u \in DOMAIN talents /\ talents[u].registration_fee_paid)
       THEN Reject("create_talent_ad", u, budget, "", 400)
       ELSE IF u \notin DOMAIN wallets \/ wallets[u].coins_balance < budget
       THEN Reject("create_talent_ad", u, budget, "", 400)
       ELSE /\ wallets' = IncWallet(wallets, u, "coins_balance", -budget)
            /\ inserted' = Inserted("talent_ads")
            /\ Respond("create_talent_ad", u, budget, "", 200)
            /\ UNCHANGED <<authColl, pkColl, agencyColl, engagementColl, inflight, vip_status, wallet_transactions, notifications,
                           charity_wallet, withdrawalColl, talents,
                           lucky_wallet_challenges>>

\* ------------------------------------------------------------------ logic PK
\* the entries of LOGIC_PK_QUESTIONS random.choice draws from: id -> correct
LOGIC_PK_QUESTIONS == [q1 |-> "2000", q2 |-> "Maa"]

MIN_BET == 10
MAX_BET == 1000

\* truthiness of a stored answer: None and "" are false
Truthy(x) == x # None /\ x # ""

\* count_documents({"user_id": u, "result": "loss", created_at within 24 hours});
\* all requests of a run fall within the 24 hours
recent_losses(u) ==
    Cardinality({i \in 1..Len(logic_pk_history) :
                    /\ logic_pk_history[i].user_id = u
                    /\ logic_pk_history[i].result = "loss"})

\* create_logic_pk_challenge with the maximum test written >= instead of >
create_logic_pk_challenge_max_exclusive(u, opponent_id, bet_amount, q) ==
    /\ Authenticated(u)
    /\ IF bet_amount < MIN_BET \/ bet_amount >= MAX_BET
       THEN Reject("create_logic_pk_challenge", u, bet_amount, opponent_id, 400)
       ELSE IF u \notin DOMAIN wallets
       THEN Reject("create_logic_pk_challenge", u, bet_amount, opponent_id, 404)
       ELSE IF 5 * bet_amount > wallets[u].coins_balance   \* bet > coins * 0.20
       THEN Reject("create_logic_pk_challenge", u, bet_amount, opponent_id, 400)
       ELSE IF wallets[u].coins_balance < bet_amount
       THEN Reject("create_logic_pk_challenge", u, bet_amount, opponent_id, 400)
       ELSE IF recent_losses(u) >= 3
       THEN Reject("create_logic_pk_challenge", u, bet_amount, opponent_id, 400)
       ELSE /\ logic_pk_challenges' = Append(logic_pk_challenges,
                   [challenge_id |-> Len(logic_pk_challenges) + 1,
                    challenger_id |-> u, opponent_id |-> opponent_id,
                    bet_amount |-> bet_amount, status |-> "pending",
                    question |-> q, challenger_answer |-> None,
                    opponent_answer |-> None, winner_id |-> None])
            /\ wallets' = IncWallet(IncWallet(wallets, u, "coins_balance", -bet_amount),
                                    u, "held_balance", bet_amount)
            /\ Respond("create_logic_pk_challenge", u, bet_amount, opponent_id, 200)
            /\ UNCHANGED <<authColl, vip_status, wallet_transactions, notifications,
                           charity_wallet, withdrawalColl, talents, gameColl, agencyColl, engagementColl,
                           logic_pk_history, inflight>>

create_logic_pk_challenge(u, opponent_id, bet_amount, q) ==
    /\ Authenticated(u)
    /\ IF bet_amount < MIN_BET \/ bet_amount > MAX_BET
       THEN Reject("create_logic_pk_challenge", u, bet_amount, opponent_id, 400)
       ELSE IF u \notin DOMAIN wallets
       THEN Reject("create_logic_pk_challenge", u, bet_amount, opponent_id, 404)
       ELSE IF 5 * bet_amount > wallets[u].coins_balance   \* bet > coins * 0.20
       THEN Reject("create_logic_pk_challenge", u, bet_amount, opponent_id, 400)
       ELSE IF wallets[u].coins_balance < bet_amount
       THEN Reject("create_logic_pk_challenge", u, bet_amount, opponent_id, 400)
       ELSE IF recent_losses(u) >= 3
       THEN Reject("create_logic_pk_challenge", u, bet_amount, opponent_id, 400)
       ELSE /\ logic_pk_challenges' = Append(logic_pk_challenges,
                   [challenge_id |-> Len(logic_pk_challenges) + 1,
                    challenger_id |-> u, opponent_id |-> opponent_id,
                    bet_amount |-> bet_amount, status |-> "pending",
                    question |-> q, challenger_answer |-> None,
                    opponent_answer |-> None, winner_id |-> None])
            /\ wallets' = IncWallet(IncWallet(wallets, u, "coins_balance", -bet_amount),
                                    u, "held_balance", bet_amount)
            /\ Respond("create_logic_pk_challenge", u, bet_amount, opponent_id, 200)
            /\ UNCHANGED <<authColl, vip_status, wallet_transactions, notifications,
                           charity_wallet, withdrawalColl, talents, gameColl, agencyColl, engagementColl,
                           logic_pk_history, inflight>>

accept_logic_pk_challenge(u, cid) ==
    /\ Authenticated(u)
    /\ IF cid \notin 1..Len(logic_pk_challenges)
       THEN Reject("accept_logic_pk_challenge", u, 0, cid, 404)
       ELSE LET challenge == logic_pk_challenges[cid]
            IN IF challenge.opponent_id # u
               THEN Reject("accept_logic_pk_challenge", u, 0, cid, 403)
               ELSE IF challenge.status # "pending"
               THEN Reject("accept_logic_pk_challenge", u, 0, cid, 400)
               ELSE IF u \notin DOMAIN wallets
                       \/ wallets[u].coins_balance < challenge.bet_amount
               THEN Reject("accept_logic_pk_challenge", u, 0, cid, 400)
               ELSE /\ wallets' = IncWallet(
                           IncWallet(wallets, u, "coins_balance", -challenge.bet_amount),
                           u, "held_balance", challenge.bet_amount)
                    /\ logic_pk_challenges' =
                           [logic_pk_challenges EXCEPT ![cid].status = "in_progress"]
                    /\ Respond("accept_logic_pk_challenge", u, 0, cid, 200)
                    /\ UNCHANGED <<authColl, vip_status, wallet_transactions,
                                   notifications, charity_wallet, withdrawalColl,
                                   talents, gameColl, agencyColl, engagementColl, logic_pk_history, inflight>>

\* winner_id of a challenge both parties answered
PKWinner(challenge) ==
    LET correct_answer == LOGIC_PK_QUESTIONS[challenge.question]
        challenger_correct == challenge.challenger_answer = correct_answer
        opponent_correct == challenge.opponent_answer = correct_answer
    IN IF challenger_correct /\ ~opponent_correct THEN challenge.challenger_id
       ELSE IF opponent_correct /\ ~challenger_correct THEN challenge.opponent_id
       ELSE IF challenger_correct /\ opponent_correct THEN "tie"
       ELSE None

\* the four wallet updates of the reward distribution
PKPayout(w, challenge, winner_id) ==
    LET bet == challenge.bet_amount
        total_pot == bet * 2
        platform_fee == total_pot \div 10     \* int(total_pot * 0.10)
        winner_prize == total_pot - platform_fee
        consolation == 50
        Pay(ww, user, coins) ==
            IncWallet(IncWallet(ww, user, "coins_balance", coins),
                      user, "held_balance", -bet)
    IN IF winner_id # None /\ winner_id # "tie"
       THEN LET loser_id == IF winner_id = challenge.challenger_id
                            THEN challenge.opponent_id
                            ELSE challenge.challenger_id
            IN Pay(Pay(w, winner_id, winner_prize), loser_id, consolation)
       ELSE Pay(Pay(w, challenge.challenger_id, bet), challenge.opponent_id, bet)

submit_logic_pk_answer(u, cid, answer) ==
    /\ Authenticated(u)
    /\ IF cid \notin 1..Len(logic_pk_challenges)
       THEN Reject("submit_logic_pk_answer", u, 0, cid, 404)
       ELSE LET found == logic_pk_challenges[cid]
                is_challenger == found.challenger_id = u
                is_opponent == found.opponent_id = u
                challenge == IF is_challenger
                             THEN [found EXCEPT !.challenger_answer = answer]
                             ELSE [found EXCEPT !.opponent_answer = answer]
            IN IF ~is_challenger /\ ~is_opponent
               THEN Reject("submit_logic_pk_answer", u, 0, cid, 403)
               ELSE IF Truthy(challenge.challenger_answer)
                       /\ Truthy(challenge.opponent_answer)
               THEN LET winner_id == PKWinner(challenge)
                        bet == challenge.bet_amount
                    IN /\ wallets' = PKPayout(wallets, challenge, winner_id)
                       /\ logic_pk_history' =
                             IF winner_id # None /\ winner_id # "tie"
                             THEN logic_pk_history \o
                                  << [user_id |-> winner_id, challenge_id |-> cid,
                                      result |-> "win"],
                                     [user_id |-> IF winner_id = challenge.challenger_id
                                                  THEN challenge.opponent_id
                                                  ELSE challenge.challenger_id,
                                      challenge_id |-> cid, result |-> "loss"] >>
                             ELSE logic_pk_history
                       /\ logic_pk_challenges' = [logic_pk_challenges EXCEPT ![cid] =
                             [challenge EXCEPT !.status = "completed",
                                               !.winner_id = winner_id]]
                       /\ Respond("submit_logic_pk_answer", u, 0, cid, 200)
                       /\ UNCHANGED <<authColl, vip_status, wallet_transactions,
                                      notifications, charity_wallet, withdrawalColl,
                                      talents, gameColl, agencyColl, engagementColl, inflight>>
               ELSE /\ logic_pk_challenges' =
                          [logic_pk_challenges EXCEPT ![cid] = challenge]
                    /\ Respond("submit_logic_pk_answer", u, 0, cid, 200)
                    /\ UNCHANGED <<authColl, wallets, vip_status, wallet_transactions,
                                   notifications, charity_wallet, withdrawalColl,
                                   talents, gameColl, agencyColl, engagementColl, logic_pk_history, inflight>>

\* ------------------------------------------------------ interleaved requests
\* A handler is suspended at every await, and other requests run meanwhile.
\* inflight holds, per admitted request, the values the coroutine keeps in its
\* local variables and the await it is suspended at; a request that has
\* returned stays in it with pc = "done".
Admit(r) ==
    /\ inflight' = Append(inflight, r)
    /\ remaining > 0
    /\ remaining' = remaining - 1
    /\ now' = now

Resume(i, pc) == inflight' = [inflight EXCEPT ![i].pc = pc]

Suspended(i, op, pc) ==
    /\ i \in 1..Len(inflight)
    /\ inflight[i].op = op
    /\ inflight[i].pc = pc

\* withdraw up to its second await: the wallet is read and the amount checked
withdraw_find_one(u, a) ==
    /\ Authenticated(u)
    /\ Len(inflight) < MaxInflight
    /\ IF a <= 0 THEN Reject("withdraw", u, a, "", 400)
       ELSE IF u \notin DOMAIN wallets
       THEN Reject("withdraw", u, a, "", 500)
       ELSE IF wallets[u].withdrawable_balance < a
       THEN Reject("withdraw", u, a, "", 400)
       ELSE /\ Admit([op |-> "withdraw", user |-> u, amount |-> a,
                      random_number |-> 0,
                      balance |-> wallets[u].withdrawable_balance,
                      pc |-> "update"])
            /\ UNCHANGED <<Ledger, last>>

withdraw_find_one_and_update(i) ==
    /\ Suspended(i, "withdraw", "update")
    /\ LET r == inflight[i]
       IN wallets' = IncWallet(
              IncWallet(wallets, r.user, "withdrawable_balance", -r.amount),
              r.user, "total_withdrawn", r.amount)
    /\ Resume(i, "txn")
    /\ UNCHANGED <<authColl, pkColl, agencyColl, engagementColl, vip_status, wallet_transactions, notifications,
                   charity_wallet, withdrawalColl, talents, gameColl, last,
                   remaining, now>>

withdraw_insert_transaction(i) ==
    /\ Suspended(i, "withdraw", "txn")
    /\ LET r == inflight[i]
       IN wallet_transactions' = Append(wallet_transactions,
              Txn(r.user, "withdrawal", -r.amount, "coins", "pending"))
    /\ Resume(i, "notify")
    /\ UNCHANGED <<authColl, pkColl, agencyColl, engagementColl, wallets, vip_status, notifications,
                   charity_wallet, withdrawalColl, talents, gameColl, last,
                   remaining, now>>

withdraw_insert_notification(i) ==
    /\ Suspended(i, "withdraw", "notify")
    /\ LET r == inflight[i]
       IN /\ notifications' = Append(notifications, Notif(r.user, "wallet"))
          /\ last' = [op |-> "withdraw", user |-> r.user, amount |-> r.amount,
                      aux |-> "", status |-> 200]
    /\ Resume(i, "done")
    /\ UNCHANGED <<authColl, pkColl, agencyColl, engagementColl, wallets, vip_status, wallet_transactions,
                   charity_wallet, withdrawalColl, talents, gameColl, remaining, now>>

\* play_lucky_wallet up to its second await: the bet is validated, the wallet
\* read and checked, and random_number drawn
play_lucky_wallet_find_one(u, bet_amount, random_number) ==
    /\ Authenticated(u)
    /\ Len(inflight) < MaxInflight
    /\ IF bet_amount < min_bet \/ bet_amount > max_bet
       THEN Reject("play_lucky_wallet", u, bet_amount, random_number, 400)
       ELSE IF u \notin DOMAIN wallets
       THEN Reject("play_lucky_wallet", u, bet_amount, random_number, 404)
       ELSE IF wallets[u].coins_balance < bet_amount
       THEN Reject("play_lucky_wallet", u, bet_amount, random_number, 400)
       ELSE /\ Admit([op |-> "play_lucky_wallet", user |-> u,
                      amount |-> bet_amount, random_number |-> random_number,
                      balance |-> wallets[u].coins_balance, pc |-> "update"])
            /\ UNCHANGED <<Ledger, last>>

\* the wallet update with $inc of balance_change instead of $set
play_lucky_wallet_update_one_inc(i) ==
    /\ Suspended(i, "play_lucky_wallet", "update")
    /\ LET r == inflight[i]
           o == LuckyOutcome(r.amount, r.random_number)
       IN wallets' = IncWallet(wallets, r.user, "coins_balance", o.balance_change)
    /\ Resume(i, "records")
    /\ UNCHANGED <<authColl, pkColl, agencyColl, engagementColl, vip_status, wallet_transactions, notifications,
                   charity_wallet, withdrawalColl, talents, gameColl, last,
                   remaining, now>>

\* $set of the balance computed from the wallet read before the await
play_lucky_wallet_update_one(i) ==
    /\ Suspended(i, "play_lucky_wallet", "update")
    /\ LET r == inflight[i]
           o == LuckyOutcome(r.amount, r.random_number)
           new_balance == r.balance + o.balance_change
       IN wallets' = IF r.user \in DOMAIN wallets
                     THEN [wallets EXCEPT ![r.user].coins_balance = new_balance]
                     ELSE wallets
    /\ Resume(i, "records")
    /\ UNCHANGED <<authColl, pkColl, agencyColl, engagementColl, vip_status, wallet_transactions, notifications,
                   charity_wallet, withdrawalColl, talents, gameColl, last,
                   remaining, now>>

\* the charity pool update and the three record inserts that follow it
play_lucky_wallet_insert_records(i) ==
    /\ Suspended(i, "play_lucky_wallet", "records")
    /\ LET r == inflight[i]
           o == LuckyOutcome(r.amount, r.random_number)
       IN /\ charity_wallet' = charity_wallet + o.charity_amount
          /\ lucky_wallet_challenges' = Append(lucky_wallet_challenges,
                 [user_id |-> r.user, bet_amount |-> r.amount,
                  result |-> o.result, random_number |-> r.random_number,
                  won_amount |-> o.won_amount,
                  charity_amount |-> o.charity_amount,
                  platform_amount |-> o.platform_amount,
                  balance_change |-> o.balance_change,
                  new_balance |-> r.balance + o.balance_change])
          /\ inserted' = Inserted("charity_contributions")
          /\ wallet_transactions' = Append(wallet_transactions,
                 Txn(r.user, IF o.result = "lose" THEN "lucky_wallet_bet"
                                                  ELSE "lucky_wallet_win",
                     o.balance_change, "coins", "completed"))
    /\ Resume(i, "notify")
    /\ UNCHANGED <<authColl, pkColl, agencyColl, engagementColl, wallets, vip_status, notifications,
                   withdrawalColl, talents, last, remaining, now>>

play_lucky_wallet_insert_notification(i) ==
    /\ Suspended(i, "play_lucky_wallet", "notify")
    /\ LET r == inflight[i]
       IN /\ notifications' = Append(notifications, Notif(r.user, "lucky_wallet"))
          /\ last' = [op |-> "play_lucky_wallet", user |-> r.user,
                      amount |-> r.amount, aux |-> r.random_number,
                      status |-> 200]
    /\ Resume(i, "done")
    /\ UNCHANGED <<authColl, pkColl, agencyColl, engagementColl, wallets, vip_status, wallet_transactions,
                   charity_wallet, withdrawalColl, talents, gameColl, remaining, now>>

Next ==
    \/ \E e \in Emails : exchange_session(e, e)
    \/ \E e \in Emails : free_user_registration(e)
    \/ \E u \in DOMAIN users, a \in DepositAmounts : deposit(u, a)
    \/ \E u \in DOMAIN users, a \in WithdrawAmounts : withdraw(u, a)
    \/ \E u \in DOMAIN users, r \in TransferRequests :
          transfer_balance(u, r.amount, r.from, r.to)
    \/ \E u \in DOMAIN users, a \in ConvertAmounts : convert_stars_to_coins(u, a)
    \/ \E u \in DOMAIN users, r \in GiftRequests :
          send_gift(u, r.gift_id, r.receiver_id, r.quantity)
    \/ \E u \in DOMAIN users, b \in LuckyBets, n \in RandomNumbers :
          play_lucky_wallet(u, b, n)
    \/ \E u \in DOMAIN users, r \in MindGameRequests :
          play_mind_game(u, r.game_id, r.score, r.time_taken_seconds)
    \/ \E u \in DOMAIN users : register_as_talent(u)
    \/ \E u \in DOMAIN users : pay_registration_fee(u, u)
    \/ \E u \in DOMAIN users, b \in AdBudgets : create_talent_ad(u, b)

Spec == Init /\ [][Next]_vars

\* the endpoints that debit a sub-balance after a balance check, with the
\* deposits and transfers that fund them
NextDebit ==
    \/ \E e \in Emails : exchange_session(e, e)
    \/ \E u \in DOMAIN users : deposit(u, 100000)
    \/ \E u \in DOMAIN users, r \in DebitTransfers :
          transfer_balance(u, r.amount, r.from, r.to)
    \/ \E u \in DOMAIN users, a \in DebitWithdrawAmounts : withdraw(u, a)
    \/ \E u \in DOMAIN users, a \in DebitConvertAmounts :
          convert_stars_to_coins(u, a)
    \/ \E u \in DOMAIN users : save_payment_method(u, "upi", TRUE, FALSE)
    \/ \E u \in DOMAIN users, a \in WithdrawalAmounts :
          create_withdrawal_request(u, a, 1)
    \/ \E u \in DOMAIN users, r \in DebitGifts :
          send_gift(u, r.gift_id, r.receiver_id, r.quantity)
    \/ \E u \in DOMAIN users, b \in DebitBets, n \in RandomNumbers :
          play_lucky_wallet(u, b, n)

InitDebit == EmptyDb /\ remaining = MaxDebitRequests

SpecDebit == InitDebit /\ [][NextDebit]_vars

\* the Logic PK endpoints, for two registered users
NextPK ==
    \/ \E e \in Emails : exchange_session(e, e)
    \/ /\ Len(logic_pk_challenges) < MaxChallenges
       /\ \E u \in DOMAIN users, o \in PKOpponents, b \in PKBets,
             q \in DOMAIN LOGIC_PK_QUESTIONS :
             create_logic_pk_challenge(u, o, b, q)
    \/ \E u \in DOMAIN users, c \in 1..MaxChallenges :
          accept_logic_pk_challenge(u, c)
    \/ \E u \in DOMAIN users, c \in 1..MaxChallenges, a \in PKAnswers :
          submit_logic_pk_answer(u, c, a)

InitPK == EmptyDb /\ remaining = MaxPKRequests

SpecPK == InitPK /\ [][NextPK]_vars


\* the withdrawal endpoints; stars reach min_stars_required by a deposit and
\* a transfer of coins to stars
NextWd ==
    \/ \E e \in Emails : exchange_session(e, e)
    \/ \E u \in DOMAIN users : deposit(u, 100000)
    \/ \E u \in DOMAIN users : transfer_balance(u, 100000, "coins", "stars")
    \/ \E u \in DOMAIN users : save_payment_method(u, "upi", TRUE, TRUE)
    \/ /\ Len(withdrawals) < MaxWithdrawals
       /\ \E u \in DOMAIN users, a \in WithdrawalAmounts :
             create_withdrawal_request(u, a, 1)
    \/ \E u \in DOMAIN users, w \in 1..MaxWithdrawals :
          verify_face_for_withdrawal(u, w)

InitWd == EmptyDb /\ remaining = MaxWdRequests

SpecWd == InitWd /\ [][NextWd]_vars

\* two or more requests of one user in flight at once, on a wallet funded by
\* a transfer of coins to the withdrawable balance
NextRace ==
    \/ \E e \in RaceEmails : exchange_session(e, e)
    \/ \E u \in DOMAIN users : transfer_balance(u, 300, "coins", "withdrawable")
    \/ \E u \in DOMAIN users, a \in RaceWithdrawAmounts : withdraw_find_one(u, a)
    \/ \E i \in 1..MaxInflight : withdraw_find_one_and_update(i)
    \/ \E i \in 1..MaxInflight : withdraw_insert_transaction(i)
    \/ \E i \in 1..MaxInflight : withdraw_insert_notification(i)
    \/ \E u \in DOMAIN users, b \in RaceBets, n \in RandomNumbers :
          play_lucky_wallet_find_one(u, b, n)
    \/ \E i \in 1..MaxInflight : play_lucky_wallet_update_one(i)
    \/ \E i \in 1..MaxInflight : play_lucky_wallet_insert_records(i)
    \/ \E i \in 1..MaxInflight : play_lucky_wallet_insert_notification(i)

InitRace == EmptyDb /\ remaining = MaxRaceRequests

SpecRace == InitRace /\ [][NextRace]_vars

\* ------------------------------------------------------------- tier tables
\* VIP_LEVELS_DATA, in list order: level and recharge_requirement
VIP_LEVELS_DATA ==
    << [level |-> 0, name |-> "Basic", recharge_requirement |-> 0],
       [level |-> 1, name |-> "Bronze", recharge_requirement |-> 500],
       [level |-> 2, name |-> "Silver", recharge_requirement |-> 2000],
       [level |-> 3, name |-> "Gold", recharge_requirement |-> 5000],
       [level |-> 4, name |-> "Platinum", recharge_requirement |-> 15000],
       [level |-> 5, name |-> "Diamond", recharge_requirement |-> 50000] >>

RECURSIVE ScanVipLevelsStrict(_, _, _)
\* the scan with > in place of >=
ScanVipLevelsStrict(total_recharged, i, eligible_level) ==
    IF i > Len(VIP_LEVELS_DATA) THEN eligible_level
    ELSE ScanVipLevelsStrict(total_recharged, i + 1,
             IF total_recharged > VIP_LEVELS_DATA[i].recharge_requirement
             THEN VIP_LEVELS_DATA[i].level
             ELSE eligible_level)

RECURSIVE ScanVipLevels(_, _, _)
\* for level_data in VIP_LEVELS_DATA: if total_recharged >= requirement:
\*     eligible_level = level_data["level"]
ScanVipLevels(total_recharged, i, eligible_level) ==
    IF i > Len(VIP_LEVELS_DATA) THEN eligible_level
    ELSE ScanVipLevels(total_recharged, i + 1,
             IF total_recharged >= VIP_LEVELS_DATA[i].recharge_requirement
             THEN VIP_LEVELS_DATA[i].level
             ELSE eligible_level)

\* the eligibility scan with > in place of >=
EligibleVipLevelStrict(total_recharged) ==
    ScanVipLevelsStrict(total_recharged, 1, 0)

\* eligible_level of deposit and of get_vip_status
EligibleVipLevel(total_recharged) == ScanVipLevels(total_recharged, 1, 0)

\* LEARNING_LEVELS: level -> min_hours
LEARNING_LEVELS ==
    [seedling |-> 0, sprout |-> 10, tree |-> 25, star_learner |-> 50,
     diamond_scholar |-> 100, master_guru |-> 200, legend |-> 500]

\* the level scan with > in place of >=
LearningLevelStrict(hours) ==
    LET reached == {l \in DOMAIN LEARNING_LEVELS : hours > LEARNING_LEVELS[l]}
    IN IF reached = {} THEN "seedling"
       ELSE CHOOSE l \in reached :
               \A k \in reached : LEARNING_LEVELS[k] <= LEARNING_LEVELS[l]

\* current_level of get_education_profile: the levels sorted by min_hours,
\* highest first, and the first one with hours >= min_hours; else "seedling"
LearningLevel(hours) ==
    LET reached == {l \in DOMAIN LEARNING_LEVELS : hours >= LEARNING_LEVELS[l]}
    IN IF reached = {} THEN "seedling"
       ELSE CHOOSE l \in reached :
               \A k \in reached : LEARNING_LEVELS[k] <= LEARNING_LEVELS[l]

\* Earnings reach 999999999999: an amount is <<m, u>> for m * 1000000 + u with
\* 0 <= u < 1000000, and amounts compare as the numbers do.
WideLeq(a, b) == a[1] < b[1] \/ (a[1] = b[1] /\ a[2] <= b[2])

COMMISSION_BRACKETS ==
    << [min |-> <<0, 0>>, max |-> <<2, 0>>, rate |-> 4],
       [min |-> <<2, 1>>, max |-> <<10, 0>>, rate |-> 8],
       [min |-> <<10, 1>>, max |-> <<50, 0>>, rate |-> 12],
       [min |-> <<50, 1>>, max |-> <<150, 0>>, rate |-> 16],
       [min |-> <<150, 1>>, max |-> <<999999, 999999>>, rate |-> 20] >>

\* the bracket test with an exclusive upper bound
get_commission_rate_exclusive(total_earnings) ==
    LET inside == {i \in 1..Len(COMMISSION_BRACKETS) :
                      /\ WideLeq(COMMISSION_BRACKETS[i].min, total_earnings)
                      /\ WideLeq(total_earnings, COMMISSION_BRACKETS[i].max)
                      /\ total_earnings # COMMISSION_BRACKETS[i].max}
    IN IF inside = {}
       THEN [rate |-> 20, bracket |-> Len(COMMISSION_BRACKETS)]
       ELSE LET first == CHOOSE i \in inside : \A j \in inside : i <= j
            IN [rate |-> COMMISSION_BRACKETS[first].rate, bracket |-> first]

\* the first bracket with min <= total_earnings <= max; with none, rate 20 and
\* the last bracket
get_commission_rate(total_earnings) ==
    LET inside == {i \in 1..Len(COMMISSION_BRACKETS) :
                      /\ WideLeq(COMMISSION_BRACKETS[i].min, total_earnings)
                      /\ WideLeq(total_earnings, COMMISSION_BRACKETS[i].max)}
    IN IF inside = {}
       THEN [rate |-> 20, bracket |-> Len(COMMISSION_BRACKETS)]
       ELSE LET first == CHOOSE i \in inside : \A j \in inside : i <= j
            IN [rate |-> COMMISSION_BRACKETS[first].rate, bracket |-> first]

\* AGENCY_LEVELS: level -> monthly_threshold
AGENCY_LEVELS ==
    [level \in 0..5 |->
        [name |-> <<"Member", "Agent Level 1", "Agent Level 2", "Agent Level 3",
                    "Agent Level 4", "Agent Level 5">>[level + 1],
         monthly_threshold |-> << <<0, 0>>, <<0, 0>>, <<2, 0>>, <<10, 0>>,
                                  <<50, 0>>, <<150, 0>> >>[level + 1]]]

\* the scan in ascending order of level
get_agent_level_ascending(total_earnings) ==
    LET reached == {l \in DOMAIN AGENCY_LEVELS :
                       WideLeq(AGENCY_LEVELS[l].monthly_threshold, total_earnings)}
    IN IF reached = {} THEN 0
       ELSE CHOOSE l \in reached : \A k \in reached : l <= k

\* the levels sorted highest first, and the first one with
\* total_earnings >= monthly_threshold; else 0
get_agent_level(total_earnings) ==
    LET reached == {l \in DOMAIN AGENCY_LEVELS :
                       WideLeq(AGENCY_LEVELS[l].monthly_threshold, total_earnings)}
    IN IF reached = {} THEN 0
       ELSE CHOOSE l \in reached : \A k \in reached : k <= l

\* the tier computations applied to the values a record can hold; the
\* response carries the value and the tier computed for it
vip_eligibility(total_recharged) ==
    /\ total_recharged \in VipRecharges
    /\ Reject("EligibleVipLevel", "", total_recharged,
              EligibleVipLevel(total_recharged), 200)

education_level(hours) ==
    /\ hours \in LearningHours
    /\ Reject("LearningLevel", "", hours, LearningLevel(hours), 200)

commission_rate(total_earnings) ==
    /\ total_earnings \in TotalEarnings
    /\ Reject("get_commission_rate", "", total_earnings,
              get_commission_rate(total_earnings), 200)

agent_level(total_earnings) ==
    /\ total_earnings \in TotalEarnings
    /\ Reject("get_agent_level", "", total_earnings,
              get_agent_level(total_earnings), 200)

NextTiers ==
    \/ \E v \in VipRecharges : vip_eligibility(v)
    \/ \E h \in LearningHours : education_level(h)
    \/ \E e \in TotalEarnings : commission_rate(e)
    \/ \E e \in TotalEarnings : agent_level(e)

InitTiers == EmptyDb /\ remaining = MaxTierRequests

SpecTiers == InitTiers /\ [][NextTiers]_vars

\* bets at the limits of play_lucky_wallet and create_logic_pk_challenge, by
\* a user who may have deposited
NextBets ==
    \/ \E e \in RaceEmails : exchange_session(e, e)
    \/ \E u \in DOMAIN users : deposit(u, 100000)
    \/ \E u \in DOMAIN users, p \in LuckyBoundaryPlays :
          play_lucky_wallet(u, p[1], p[2])
    \/ \E u \in DOMAIN users, b \in PKBoundaryBets :
          create_logic_pk_challenge(u, "user_2", b, "q1")

InitBets == EmptyDb /\ remaining = MaxBetRequests

SpecBets == InitBets /\ [][NextBets]_vars

\* ---------------------------------------------------- notification endpoints
\* mark_notification_read writing the negation of is_read
mark_notification_read_toggle(u, notification_id) ==
    /\ Authenticated(u)
    /\ notifications' =
          [i \in 1..Len(notifications) |->
              IF /\ notifications[i].notification_id = notification_id
                 /\ notifications[i].user_id = u
              THEN [notifications[i] EXCEPT !.is_read = ~@]
              ELSE notifications[i]]
    /\ Respond("mark_notification_read", u, 0, notification_id, 200)
    /\ UNCHANGED <<authColl, pkColl, agencyColl, engagementColl, inflight, wallets, vip_status,
                   wallet_transactions, charity_wallet, withdrawalColl, talents,
                   gameColl>>

\* update_one on {notification_id, user_id}: no document, no change, and the
\* response is the same
mark_notification_read(u, notification_id) ==
    /\ Authenticated(u)
    /\ notifications' =
          [i \in 1..Len(notifications) |->
              IF /\ notifications[i].notification_id = notification_id
                 /\ notifications[i].user_id = u
              THEN [notifications[i] EXCEPT !.is_read = TRUE]
              ELSE notifications[i]]
    /\ Respond("mark_notification_read", u, 0, notification_id, 200)
    /\ UNCHANGED <<authColl, pkColl, agencyColl, engagementColl, inflight, wallets, vip_status,
                   wallet_transactions, charity_wallet, withdrawalColl, talents,
                   gameColl>>

\* mark_all_notifications_read without the user_id filter
mark_all_notifications_read_unfiltered(u) ==
    /\ Authenticated(u)
    /\ notifications' =
          [i \in 1..Len(notifications) |->
              [notifications[i] EXCEPT !.is_read = TRUE]]
    /\ Respond("mark_all_notifications_read", u, 0, "", 200)
    /\ UNCHANGED <<authColl, pkColl, agencyColl, engagementColl, inflight, wallets, vip_status,
                   wallet_transactions, charity_wallet, withdrawalColl, talents,
                   gameColl>>

mark_all_notifications_read(u) ==
    /\ Authenticated(u)
    /\ notifications' =
          [i \in 1..Len(notifications) |->
              IF notifications[i].user_id = u
              THEN [notifications[i] EXCEPT !.is_read = TRUE]
              ELSE notifications[i]]
    /\ Respond("mark_all_notifications_read", u, 0, "", 200)
    /\ UNCHANGED <<authColl, pkColl, agencyColl, engagementColl, inflight, wallets, vip_status,
                   wallet_transactions, charity_wallet, withdrawalColl, talents,
                   gameColl>>

\* the endpoints that read notifications as read, with endpoints that create
\* notifications for the caller and for another user
NextNotif ==
    \/ \E e \in Emails : exchange_session(e, e)
    \/ \E u \in DOMAIN users : deposit(u, 500)
    \/ \E u \in DOMAIN users, r \in DebitGifts :
          send_gift(u, r.gift_id, r.receiver_id, r.quantity)
    \/ \E u \in DOMAIN users, n \in 1..MaxNotificationId :
          mark_notification_read(u, n)
    \/ \E u \in DOMAIN users : mark_all_notifications_read(u)

InitNotif == EmptyDb /\ remaining = MaxNotifRequests

SpecNotif == InitNotif /\ [][NextNotif]_vars

\* ------------------------------------------------------ session expiry
\* tokens the auth service hands out, and the tokens a request may carry
SessionTokens == {"t1", "t2"}

\* the cookie ("" when absent) and the Authorization header as <<scheme,
\* credentials>> (<<>> when absent) of a request
RequestCookies == {""} \cup SessionTokens
RequestHeaders == {<<>>, <<"Bearer", "t1">>, <<"Bearer", "t2">>, <<"Basic", "t1">>}

\* the cookie first, then a header that starts with "Bearer ", else None
get_session_token(cookie, auth_header) ==
    IF cookie # "" THEN cookie
    ELSE IF auth_header # <<>> /\ auth_header[1] = "Bearer" THEN auth_header[2]
    ELSE ""

RequestTokens ==
    {get_session_token(c, h) : c \in RequestCookies, h \in RequestHeaders}
ClockSteps == {SESSION_DAYS}

get_me(session_token) ==
    /\ session_token \in RequestTokens
    /\ Reject("get_me", get_current_user(session_token).user_id, 0,
              session_token, get_current_user(session_token).status)

\* delete_one({"session_token": t}) removes the first document with the token
logout(session_token) ==
    /\ IF session_token # "" /\ SessionsOf(session_token) # {}
       THEN user_sessions' =
               [i \in 1..(Len(user_sessions) - 1) |->
                   IF i < FirstSession(session_token)
                   THEN user_sessions[i] ELSE user_sessions[i + 1]]
       ELSE UNCHANGED user_sessions
    /\ Respond("logout", "", 0, session_token, 200)
    /\ UNCHANGED <<users, wallets, vip_status, wallet_transactions,
                   notifications, charity_wallet, withdrawalColl, talents,
                   gameColl, pkColl, agencyColl, engagementColl, inflight>>

\* deposit behind Depends(get_current_user)
deposit_with_token(session_token, a) ==
    LET current_user == get_current_user(session_token) IN
    IF current_user.status # 200
    THEN Reject("deposit", "", a, session_token, current_user.status)
    ELSE deposit(current_user.user_id, a)

\* time passes between requests
advance_clock(d) ==
    /\ now + d <= MaxNow
    /\ now' = now + d
    /\ UNCHANGED <<Ledger, inflight, last, remaining>>

NextAuth ==
    \/ \E e \in Emails, t \in SessionTokens : exchange_session(e, t)
    \/ \E t \in RequestTokens : get_me(t)
    \/ \E t \in RequestTokens : logout(t)
    \/ \E t \in RequestTokens : deposit_with_token(t, 500)
    \/ \E d \in ClockSteps : advance_clock(d)

InitAuth == EmptyDb /\ remaining = MaxAuthRequests

SpecAuth == InitAuth /\ [][NextAuth]_vars

\* ------------------------------------------------------------- referrals
\* f"MN{uuid.uuid4().hex[:8].upper()}": a fresh code for each agency document
ReferralCodes == <<"MN1A", "MN2B", "MN3C">>

\* the codes a request may carry: stored codes as issued and in lower case,
\* and a code no document holds
RequestCodes == {"MN1A", "mn1a", "MN2B", "mn2b", "MN9Z"}

\* str.upper()
Upper(code) ==
    CASE code = "mn1a" -> "MN1A"
      [] code = "mn2b" -> "MN2B"
      [] OTHER -> code

AgencyOf(u) == {i \in 1..Len(agency_status) : agency_status[i].user_id = u}
AgencyByCode(code) ==
    {i \in 1..Len(agency_status) : agency_status[i].referral_code = code}
First(S) == CHOOSE i \in S : \A j \in S : i <= j

\* the part of get_agency_status that writes the referral fields: the
\* document of the caller is created, with its code, when it does not exist
get_agency_status(u) ==
    /\ Authenticated(u)
    /\ IF AgencyOf(u) = {}
       THEN agency_status' = Append(agency_status,
               [user_id |-> u,
                referral_code |-> ReferralCodes[Len(agency_status) + 1],
                total_referrals |-> 0, active_referrals |-> 0])
       ELSE UNCHANGED agency_status
    /\ Respond("get_agency_status", u, 0, "", 200)
    /\ UNCHANGED <<authColl, wallets, vip_status, wallet_transactions,
                   notifications, charity_wallet, withdrawalColl, talents,
                   gameColl, pkColl, engagementColl, referrals, inflight>>

\* apply_referral_code without the test for an existing referral
apply_referral_code_unchecked(u, referral_code) ==
    /\ Authenticated(u)
    /\ IF AgencyByCode(Upper(referral_code)) = {}
       THEN Reject("apply_referral_code", u, 0, referral_code, 404)
       ELSE LET referrer_agency ==
                    agency_status[First(AgencyByCode(Upper(referral_code)))]
            IN
            IF referrer_agency.user_id = u
            THEN Reject("apply_referral_code", u, 0, referral_code, 400)
            ELSE /\ referrals' = Append(referrals,
                        [referrer_id |-> referrer_agency.user_id,
                         referred_id |-> u, status |-> "active"])
                 /\ agency_status' =
                        [agency_status EXCEPT
                           ![First(AgencyOf(referrer_agency.user_id))] =
                               [@ EXCEPT !.total_referrals = @ + 1,
                                         !.active_referrals = @ + 1]]
                 /\ notifications' = Append(notifications,
                        Notif(referrer_agency.user_id, "agency"))
                 /\ Respond("apply_referral_code", u, 0, referral_code, 200)
                 /\ UNCHANGED <<authColl, wallets, vip_status,
                                wallet_transactions, charity_wallet,
                                withdrawalColl, talents, gameColl, pkColl, engagementColl,
                                inflight>>

apply_referral_code(u, referral_code) ==
    /\ Authenticated(u)
    /\ IF \E i \in 1..Len(referrals) : referrals[i].referred_id = u
       THEN Reject("apply_referral_code", u, 0, referral_code, 400)
       ELSE IF AgencyByCode(Upper(referral_code)) = {}
       THEN Reject("apply_referral_code", u, 0, referral_code, 404)
       ELSE LET referrer_agency ==
                    agency_status[First(AgencyByCode(Upper(referral_code)))]
            IN
            IF referrer_agency.user_id = u
            THEN Reject("apply_referral_code", u, 0, referral_code, 400)
            ELSE /\ referrals' = Append(referrals,
                        [referrer_id |-> referrer_agency.user_id,
                         referred_id |-> u, status |-> "active"])
                 /\ agency_status' =
                        [agency_status EXCEPT
                           ![First(AgencyOf(referrer_agency.user_id))] =
                               [@ EXCEPT !.total_referrals = @ + 1,
                                         !.active_referrals = @ + 1]]
                 /\ notifications' = Append(notifications,
                        Notif(referrer_agency.user_id, "agency"))
                 /\ Respond("apply_referral_code", u, 0, referral_code, 200)
                 /\ UNCHANGED <<authColl, wallets, vip_status,
                                wallet_transactions, charity_wallet,
                                withdrawalColl, talents, gameColl, pkColl, engagementColl,
                                inflight>>

NextReferral ==
    \/ \E e \in Emails : exchange_session(e, e)
    \/ \E u \in DOMAIN users : get_agency_status(u)
    \/ \E u \in DOMAIN users, c \in RequestCodes : apply_referral_code(u, c)

InitReferral == EmptyDb /\ remaining = MaxReferralRequests

SpecReferral == InitReferral /\ [][NextReferral]_vars

\* ------------------------------------------------ send_gift, await by await
\* Nothing encloses the writes of send_gift: no transaction and no except
\* clause. An await that raises (the database call fails) ends the request
\* where it is; the writes already made stay.
StepGifts ==
    { [gift_id |-> "birthday_cake", receiver_id |-> "user_2", quantity |-> 1],
      [gift_id |-> "diamond_ring", receiver_id |-> "user_1", quantity |-> 1] }

\* the await a request has reached, for a failed request the one it failed at
Progress(r) == IF r.pc = "failed" THEN r.failed_at ELSE r.pc

\* send_gift up to the update of the sender's wallet: the gift and receiver
\* are looked up, the sender's wallet read and checked
send_gift_find_one(u, gift_id, receiver_id, quantity) ==
    /\ Authenticated(u)
    /\ Len(inflight) < MaxInflight
    /\ LET aux == <<gift_id, receiver_id>>
       IN IF gift_id \notin DOMAIN SIGNATURE_GIFTS
          THEN Reject("send_gift", u, quantity, aux, 404)
          ELSE IF receiver_id \notin DOMAIN users
          THEN Reject("send_gift", u, quantity, aux, 404)
          ELSE IF receiver_id = u
          THEN Reject("send_gift", u, quantity, aux, 400)
          ELSE IF u \notin DOMAIN wallets
          THEN Reject("send_gift", u, quantity, aux, 500)
          ELSE LET total_cost == SIGNATURE_GIFTS[gift_id] * quantity
               IN IF wallets[u].coins_balance < total_cost
                  THEN Reject("send_gift", u, quantity, aux, 400)
                  ELSE /\ Admit([op |-> "send_gift", user |-> u,
                                 receiver_id |-> receiver_id,
                                 total_cost |-> total_cost,
                                 charity_amount |->
                                    PercentOf(total_cost, vip_gift_charity_percent),
                                 pc |-> "update_sender", failed_at |-> ""])
                       /\ UNCHANGED <<Ledger, last>>

send_gift_update_sender(i) ==
    /\ Suspended(i, "send_gift", "update_sender")
    /\ wallets' = IncWallet(wallets, inflight[i].user, "coins_balance",
                            -inflight[i].total_cost)
    /\ Resume(i, "update_receiver")
    /\ UNCHANGED <<authColl, pkColl, agencyColl, engagementColl, vip_status, wallet_transactions,
                   notifications, charity_wallet, withdrawalColl, talents,
                   gameColl, last, remaining, now>>

send_gift_update_receiver(i) ==
    /\ Suspended(i, "send_gift", "update_receiver")
    /\ wallets' = IncWallet(wallets, inflight[i].receiver_id, "stars_balance",
                            inflight[i].total_cost - inflight[i].charity_amount)
    /\ Resume(i, "records")
    /\ UNCHANGED <<authColl, pkColl, agencyColl, engagementColl, vip_status, wallet_transactions,
                   notifications, charity_wallet, withdrawalColl, talents,
                   gameColl, last, remaining, now>>

\* the charity pool update and the four record inserts that follow it
send_gift_insert_records(i) ==
    /\ Suspended(i, "send_gift", "records")
    /\ LET r == inflight[i]
       IN /\ charity_wallet' = charity_wallet + r.charity_amount
          /\ inserted' = [inserted EXCEPT
                 !["charity_contributions"] = @ + 1,
                 !["gift_records"] = @ + 1]
          /\ wallet_transactions' = wallet_transactions \o
                 << Txn(r.user, "gift_sent", -r.total_cost, "coins", "completed"),
                    Txn(r.receiver_id, "gift_received",
                        r.total_cost - r.charity_amount, "stars", "completed") >>
    /\ Resume(i, "notify")
    /\ UNCHANGED <<authColl, pkColl, agencyColl, engagementColl, wallets, vip_status,
                   notifications, withdrawalColl, talents,
                   lucky_wallet_challenges, last, remaining, now>>

send_gift_insert_notification(i) ==
    /\ Suspended(i, "send_gift", "notify")
    /\ LET r == inflight[i]
       IN /\ notifications' = Append(notifications, Notif(r.receiver_id, "gift"))
          /\ last' = [op |-> "send_gift", user |-> r.user, amount |-> r.total_cost,
                      aux |-> r.receiver_id, status |-> 200]
    /\ Resume(i, "done")
    /\ UNCHANGED <<authColl, pkColl, agencyColl, engagementColl, wallets, vip_status,
                   wallet_transactions, charity_wallet, withdrawalColl, talents,
                   gameColl, remaining, now>>

\* an await of send_gift that raises and a handler that gives the sender's
\* coins back before it answers
send_gift_raises_refund(i) ==
    /\ i \in 1..Len(inflight)
    /\ inflight[i].op = "send_gift"
    /\ inflight[i].pc \in {"update_sender", "update_receiver", "records", "notify"}
    /\ inflight' = [inflight EXCEPT ![i].pc = "failed", ![i].failed_at = inflight[i].pc]
    /\ wallets' = IF inflight[i].pc = "update_sender" THEN wallets
                  ELSE IncWallet(wallets, inflight[i].user, "coins_balance",
                                 inflight[i].total_cost)
    /\ last' = [op |-> "send_gift", user |-> inflight[i].user,
                amount |-> inflight[i].total_cost,
                aux |-> inflight[i].receiver_id, status |-> 500]
    /\ UNCHANGED <<authColl, pkColl, agencyColl, engagementColl, vip_status, wallet_transactions,
                   notifications, charity_wallet, withdrawalColl, talents,
                   gameColl, remaining, now>>

\* an await of send_gift raises: the exception leaves the handler, the request
\* is answered 500 and every write made so far stays
send_gift_raises(i) ==
    /\ i \in 1..Len(inflight)
    /\ inflight[i].op = "send_gift"
    /\ inflight[i].pc \in {"update_sender", "update_receiver", "records", "notify"}
    /\ inflight' = [inflight EXCEPT ![i].pc = "failed", ![i].failed_at = inflight[i].pc]
    /\ last' = [op |-> "send_gift", user |-> inflight[i].user,
                amount |-> inflight[i].total_cost,
                aux |-> inflight[i].receiver_id, status |-> 500]
    /\ UNCHANGED <<Ledger, remaining, now>>

NextGift ==
    \/ \E e \in Emails : exchange_session(e, e)
    \/ \E u \in DOMAIN users, r \in StepGifts :
          send_gift_find_one(u, r.gift_id, r.receiver_id, r.quantity)
    \/ \E i \in 1..Len(inflight) : send_gift_update_sender(i)
    \/ \E i \in 1..Len(inflight) : send_gift_update_receiver(i)
    \/ \E i \in 1..Len(inflight) : send_gift_insert_records(i)
    \/ \E i \in 1..Len(inflight) : send_gift_insert_notification(i)
    \/ \E i \in 1..Len(inflight) : send_gift_raises(i)

InitGift == EmptyDb /\ remaining = MaxGiftRequests

SpecGift == InitGift /\ [][NextGift]_vars

\* ------------------------------------------- Logic PK, answers after accept
\* the clients of this specification answer only challenges that have been
\* accepted, so every stored answer was submitted after the acceptance
FlowBets == {10, 100}

NextPKFlow ==
    \/ \E e \in Emails : exchange_session(e, e)
    \/ /\ Len(logic_pk_challenges) < MaxChallenges
       /\ \E u \in DOMAIN users, o \in PKOpponents, b \in FlowBets :
             create_logic_pk_challenge(u, o, b, "q1")
    \/ \E u \in DOMAIN users, c \in 1..MaxChallenges :
          accept_logic_pk_challenge(u, c)
    \/ \E u \in DOMAIN users, c \in 1..Len(logic_pk_challenges),
          a \in PKAnswers :
          /\ logic_pk_challenges[c].status = "in_progress"
          /\ submit_logic_pk_answer(u, c, a)

InitPKFlow == EmptyDb /\ remaining = MaxPKFlowRequests

SpecPKFlow == InitPKFlow /\ [][NextPKFlow]_vars

\* ------------------------------------- a credit during play_lucky_wallet
\* deposits commit while a play_lucky_wallet request is suspended between its
\* read of the wallet and its update
CreditDeposits == {500, 2000}

NextCredit ==
    \/ \E e \in RaceEmails : exchange_session(e, e)
    \/ \E u \in DOMAIN users, a \in CreditDeposits : deposit(u, a)
    \/ \E u \in DOMAIN users, b \in RaceBets, n \in RandomNumbers :
          play_lucky_wallet_find_one(u, b, n)
    \/ \E i \in 1..MaxInflight : play_lucky_wallet_update_one(i)
    \/ \E i \in 1..MaxInflight : play_lucky_wallet_insert_records(i)
    \/ \E i \in 1..MaxInflight : play_lucky_wallet_insert_notification(i)

InitCredit == EmptyDb /\ remaining = MaxCreditRequests

SpecCredit == InitCredit /\ [][NextCredit]_vars

\* ------------------------------------------------------------------ courses
CourseIds == {"mind_training", "business_skills"}
LessonIds == {"lesson_1"}
total_lessons == 20
lesson_coins == 20
course_completion_bonus == 500

EnrollmentsOf(u, course_id) ==
    {i \in 1..Len(course_enrollments) :
        /\ course_enrollments[i].user_id = u
        /\ course_enrollments[i].course_id = course_id}

\* the upsert of the education profile: a new document has no
\* courses_completed, which $inc and get() read as 0
UpsertProfile(cc, u) == IF u \in DOMAIN cc THEN cc ELSE (u :> 0) @@ cc

enroll_in_course(u, course_id) ==
    /\ Authenticated(u)
    /\ IF EnrollmentsOf(u, course_id) # {}
       THEN Reject("enroll_in_course", u, 0, course_id, 400)
       ELSE /\ course_enrollments' = Append(course_enrollments,
                   [user_id |-> u, course_id |-> course_id,
                    progress_percent |-> 0, lessons_completed |-> 0,
                    total_lessons |-> total_lessons, coins_earned |-> 0,
                    status |-> "in_progress"])
            /\ courses_completed' = UpsertProfile(courses_completed, u)
            /\ inserted' = Inserted("education_profiles")
            /\ Respond("enroll_in_course", u, 0, course_id, 200)
            /\ UNCHANGED <<authColl, wallets, vip_status, wallet_transactions,
                           notifications, charity_wallet, withdrawalColl,
                           talents, lucky_wallet_challenges, pkColl, agencyColl,
                           exchangeColl, activity_sessions, hostColl, inflight>>

\* lesson_id is stored in the learning session and compared with nothing; the
\* enrollment's lessons_completed is not compared with total_lessons
complete_lesson(u, course_id, lesson_id) ==
    /\ Authenticated(u)
    /\ IF EnrollmentsOf(u, course_id) = {}
       THEN Reject("complete_lesson", u, 0, course_id, 404)
       ELSE LET e == First(EnrollmentsOf(u, course_id))
                enrollment == course_enrollments[e]
                new_lessons == enrollment.lessons_completed + 1
                new_progress ==
                    Min(100, (new_lessons * 100) \div enrollment.total_lessons)
                bonus_earned == IF new_progress >= 100
                                THEN course_completion_bonus ELSE 0
            IN /\ wallets' = IncWallet(wallets, u, "coins_balance",
                                       lesson_coins + bonus_earned)
               /\ course_enrollments' = [course_enrollments EXCEPT ![e] =
                     [@ EXCEPT !.lessons_completed = @ + 1,
                               !.coins_earned = @ + lesson_coins,
                               !.progress_percent = new_progress,
                               !.status = IF new_progress >= 100
                                          THEN "completed" ELSE "in_progress"]]
               /\ inserted' = [inserted EXCEPT
                     !["learning_sessions"] = @ + 1,
                     !["education_profiles"] = @ + 1]
               /\ wallet_transactions' = Append(wallet_transactions,
                     Txn(u, "education_reward", lesson_coins, "coins", "completed"))
               /\ IF new_progress >= 100
                  THEN /\ courses_completed' =
                             [UpsertProfile(courses_completed, u)
                                EXCEPT ![u] = @ + 1]
                       /\ notifications' = Append(notifications,
                             Notif(u, "education"))
                  ELSE /\ courses_completed' = UpsertProfile(courses_completed, u)
                       /\ UNCHANGED notifications
               /\ Respond("complete_lesson", u, bonus_earned, course_id, 200)
               /\ UNCHANGED <<authColl, vip_status, charity_wallet,
                              withdrawalColl, talents, lucky_wallet_challenges,
                              pkColl, agencyColl, exchangeColl, activity_sessions,
                              hostColl, inflight>>

NextLesson ==
    \/ \E e \in RaceEmails : exchange_session(e, e)
    \/ \E u \in DOMAIN users, c \in CourseIds : enroll_in_course(u, c)
    \/ \E u \in DOMAIN users, c \in CourseIds, l \in LessonIds :
          complete_lesson(u, c, l)

InitLesson == EmptyDb /\ remaining = MaxLessonRequests

SpecLesson == InitLesson /\ [][NextLesson]_vars

\* ------------------------------------------------------------ star exchange
minimum_stars == 1000
daily_limit == 1000000
monthly_limit == 10000000
exchange_rate_percent == 92
fee_percentage == 8
StarAmounts == {999, 1000000}

\* sum of stars_exchanged over the user's exchanges created today or later
today_total(u) ==
    LET today == {i \in 1..Len(star_exchanges) :
                     /\ star_exchanges[i].user_id = u
                     /\ star_exchanges[i].created_at >= now}
        F[S \in SUBSET today] ==
            IF S = {} THEN 0
            ELSE LET i == CHOOSE j \in S : TRUE
                 IN star_exchanges[i].stars_exchanged + F[S \ {i}]
    IN F[today]

execute_star_exchange(u, star_amount) ==
    /\ Authenticated(u)
    /\ IF star_amount < minimum_stars
       THEN Reject("execute_star_exchange", u, star_amount, "", 400)
       ELSE IF u \notin DOMAIN wallets
       THEN Reject("execute_star_exchange", u, star_amount, "", 404)
       ELSE IF wallets[u].stars_balance < star_amount
       THEN Reject("execute_star_exchange", u, star_amount, "", 400)
       ELSE IF today_total(u) + star_amount > daily_limit
       THEN Reject("execute_star_exchange", u, star_amount, "", 400)
       ELSE LET coins_received == PercentOf(star_amount, exchange_rate_percent)
                fee_coins == PercentOf(star_amount, fee_percentage)
            IN /\ wallets' = IncWallet(
                      IncWallet(wallets, u, "stars_balance", -star_amount),
                      u, "coins_balance", coins_received)
               /\ platform_stats' = [platform_stats EXCEPT
                      !.exchange_fees_collected = @ + fee_coins,
                      !.total_stars_exchanged = @ + star_amount,
                      !.total_coins_issued = @ + coins_received]
               /\ star_exchanges' = Append(star_exchanges,
                      [user_id |-> u, stars_exchanged |-> star_amount,
                       coins_received |-> coins_received,
                       fee_coins |-> fee_coins, created_at |-> now])
               /\ wallet_transactions' = Append(wallet_transactions,
                      [user_id |-> u, type |-> "star_to_coin_exchange",
                       stars_deducted |-> star_amount,
                       coins_added |-> coins_received, fee |-> fee_coins])
               /\ Respond("execute_star_exchange", u, star_amount, "", 200)
               /\ UNCHANGED <<authColl, vip_status, notifications,
                              charity_wallet, withdrawalColl, talents, gameColl,
                              pkColl, agencyColl, eduColl, activity_sessions,
                              hostColl, inflight>>

NextStars ==
    \/ \E e \in RaceEmails :
          /\ \A u \in UserByEmail(e) : ~Authenticated(u)
          /\ exchange_session(e, "t1")
    \/ \E u \in DOMAIN users, a \in StarAmounts : execute_star_exchange(u, a)
    \/ now < MaxStarDay /\ advance_clock(1)

\* the database after exchange_session of a@x, FundingDeposits deposits of
\* 100000 coins and one transfer_balance of all of them from coins to stars
InitStars ==
    /\ users = ("user_1" :> [email |-> "a@x", via |-> "session"])
    /\ wallets = ("user_1" :>
          [NewWallet EXCEPT !.stars_balance = FundingDeposits * 100000,
                            !.total_deposited = FundingDeposits * 100000])
    /\ vip_status = ("user_1" :>
          [vip_level |-> 0, total_recharged |-> FundingDeposits * 100000,
           is_active |-> FALSE])
    /\ user_sessions = << [user_id |-> "user_1", session_token |-> "a@x",
                           expires_at |-> SESSION_DAYS] >>
    /\ wallet_transactions =
          [i \in 1..FundingDeposits |->
              Txn("user_1", "deposit", 100000, "coins", "completed")]
    /\ notifications =
          [i \in 1..(FundingDeposits + 1) |->
              [notification_id |-> i, user_id |-> "user_1",
               notification_type |-> IF i = 1 THEN "welcome" ELSE "wallet",
               is_read |-> FALSE]]
    /\ charity_wallet = 0
    /\ payment_methods = <<>>
    /\ withdrawals = <<>>
    /\ talents = <<>>
    /\ lucky_wallet_challenges = <<>>
    /\ inserted = [c \in WriteOnlyCollections |-> 0]
    /\ logic_pk_challenges = <<>>
    /\ logic_pk_history = <<>>
    /\ inflight = <<>>
    /\ last = [op |-> "transfer_balance", user |-> "user_1",
               amount |-> FundingDeposits * 100000,
               aux |-> <<"coins", "stars">>, status |-> 200]
    /\ now = 0
    /\ agency_status = <<>>
    /\ referrals = <<>>
    /\ course_enrollments = <<>>
    /\ courses_completed = <<>>
    /\ star_exchanges = <<>>
    /\ platform_stats = [exchange_fees_collected |-> 0,
                         total_stars_exchanged |-> 0, total_coins_issued |-> 0]
    /\ activity_sessions = <<>>
    /\ host_sessions = <<>>
    /\ host_profiles = <<>>
    /\ remaining = MaxStarRequests

SpecStars == InitStars /\ [][NextStars]_vars

\* ------------------------------------------------------------ activity rewards
minutes_required == 15
coins_reward == 200
max_daily_rewards == 6
daily_bonus_coins == 50

\* find_one({"user_id": u, "date": today}): the first match, 0 when none
ActivityOf(u) ==
    LET found == {i \in 1..Len(activity_sessions) :
                     /\ activity_sessions[i].user_id = u
                     /\ activity_sessions[i].date = now}
    IN IF found = {} THEN 0 ELSE First(found)

rewards_available(activity) ==
    Min(activity.total_active_minutes \div minutes_required
            - activity.rewards_claimed,
        max_daily_rewards - activity.rewards_claimed)

NewActivity(u, minutes) ==
    [user_id |-> u, date |-> now, total_active_minutes |-> minutes,
     rewards_claimed |-> 0]

get_activity_status(u) ==
    /\ Authenticated(u)
    /\ activity_sessions' =
          IF ActivityOf(u) = 0
          THEN Append(activity_sessions, NewActivity(u, 0))
          ELSE activity_sessions
    /\ Respond("get_activity_status", u,
               IF ActivityOf(u) = 0 THEN 0
               ELSE Max(0, rewards_available(activity_sessions[ActivityOf(u)])),
               "", 200)
    /\ UNCHANGED <<authColl, wallets, vip_status, wallet_transactions,
                   notifications, charity_wallet, withdrawalColl, talents,
                   gameColl, pkColl, agencyColl, eduColl, exchangeColl,
                   hostColl, inflight>>

track_activity(u) ==
    /\ Authenticated(u)
    /\ activity_sessions' =
          IF ActivityOf(u) = 0
          THEN Append(activity_sessions, NewActivity(u, 1))
          ELSE [activity_sessions EXCEPT
                   ![ActivityOf(u)].total_active_minutes = @ + 1]
    /\ Respond("track_activity", u,
               Max(0, rewards_available(activity_sessions'[
                   IF ActivityOf(u) = 0 THEN Len(activity_sessions')
                   ELSE ActivityOf(u)])),
               "", 200)
    /\ UNCHANGED <<authColl, wallets, vip_status, wallet_transactions,
                   notifications, charity_wallet, withdrawalColl, talents,
                   gameColl, pkColl, agencyColl, eduColl, exchangeColl,
                   hostColl, inflight>>

\* the writes of a claim that passed the checks
PayActivityReward(u) ==
    LET activity == activity_sessions[ActivityOf(u)]
        is_first_reward == activity.rewards_claimed = 0
        reward_amount == coins_reward
                            + (IF is_first_reward THEN daily_bonus_coins ELSE 0)
    IN /\ activity_sessions' = [activity_sessions EXCEPT
              ![ActivityOf(u)].rewards_claimed = @ + 1]
       /\ wallets' = IncWallet(wallets, u, "coins_balance", reward_amount)
       /\ wallet_transactions' = Append(wallet_transactions,
              Txn(u, "activity_reward", reward_amount, "coins", "completed"))
       /\ notifications' = Append(notifications, Notif(u, "reward"))
       /\ IF u \in DOMAIN wallets
          THEN Respond("claim_activity_reward", u, reward_amount, "", 200)
          ELSE \* wallet["coins_balance"] on None raises TypeError
               Respond("claim_activity_reward", u, reward_amount, "", 500)
       /\ UNCHANGED <<authColl, vip_status, charity_wallet, withdrawalColl,
                      talents, gameColl, pkColl, agencyColl, eduColl,
                      exchangeColl, hostColl, inflight>>

\* claim_activity_reward without the rewards_available test
claim_activity_reward_unearned(u) ==
    /\ Authenticated(u)
    /\ IF ActivityOf(u) = 0
       THEN Reject("claim_activity_reward", u, 0, "", 400)
       ELSE IF activity_sessions[ActivityOf(u)].rewards_claimed
                  >= max_daily_rewards
       THEN Reject("claim_activity_reward", u, 0, "", 400)
       ELSE PayActivityReward(u)

claim_activity_reward(u) ==
    /\ Authenticated(u)
    /\ IF ActivityOf(u) = 0
       THEN Reject("claim_activity_reward", u, 0, "", 400)
       ELSE IF rewards_available(activity_sessions[ActivityOf(u)]) <= 0
       THEN Reject("claim_activity_reward", u, 0, "", 400)
       ELSE IF activity_sessions[ActivityOf(u)].rewards_claimed
                  >= max_daily_rewards
       THEN Reject("claim_activity_reward", u, 0, "", 400)
       ELSE PayActivityReward(u)

NextActivity ==
    \/ \E u \in DOMAIN users : get_activity_status(u)
    \/ \E u \in DOMAIN users : track_activity(u)
    \/ \E u \in DOMAIN users : claim_activity_reward(u)
    \/ now < MaxActivityDay /\ advance_clock(1)

\* the database after exchange_session of a@x and TrackedMinutes calls of
\* track_activity on day 0
InitActivity ==
    /\ users = ("user_1" :> [email |-> "a@x", via |-> "session"])
    /\ wallets = ("user_1" :> NewWallet)
    /\ vip_status = ("user_1" :>
          [vip_level |-> 0, total_recharged |-> 0, is_active |-> FALSE])
    /\ user_sessions = << [user_id |-> "user_1", session_token |-> "a@x",
                           expires_at |-> SESSION_DAYS] >>
    /\ wallet_transactions = <<>>
    /\ notifications = << [notification_id |-> 1, user_id |-> "user_1",
                           notification_type |-> "welcome",
                           is_read |-> FALSE] >>
    /\ charity_wallet = 0
    /\ payment_methods = <<>>
    /\ withdrawals = <<>>
    /\ talents = <<>>
    /\ lucky_wallet_challenges = <<>>
    /\ inserted = [c \in WriteOnlyCollections |-> 0]
    /\ logic_pk_challenges = <<>>
    /\ logic_pk_history = <<>>
    /\ inflight = <<>>
    /\ last = [op |-> "track_activity", user |-> "user_1",
               amount |-> TrackedMinutes \div minutes_required,
               aux |-> "", status |-> 200]
    /\ now = 0
    /\ agency_status = <<>>
    /\ referrals = <<>>
    /\ course_enrollments = <<>>
    /\ courses_completed = <<>>
    /\ star_exchanges = <<>>
    /\ platform_stats = [exchange_fees_collected |-> 0,
                         total_stars_exchanged |-> 0, total_coins_issued |-> 0]
    /\ activity_sessions = << [user_id |-> "user_1", date |-> 0,
                               total_active_minutes |-> TrackedMinutes,
                               rewards_claimed |-> 0] >>
    /\ host_sessions = <<>>
    /\ host_profiles = <<>>
    /\ remaining = MaxActivityRequests

SpecActivity == InitActivity /\ [][NextActivity]_vars

\* ------------------------------------------------------------ host sessions
welcome_period_days == 7
welcome_video_reward_per_hour == 2000
welcome_audio_reward_per_2hours == 3000
normal_video_reward_per_hour == 1000
normal_audio_reward_per_hour == 500
min_video_minutes == 60
min_audio_minutes == 120

HostType == {"video", "audio"}

\* the clock of the model counts days; the minutes between the two readings
\* of the wall clock beyond the whole days are an input of end_host_session
ElapsedMinutes == {0, 59, 60, 125}

\* find_one({"user_id": u, "status": "active"})
ActiveSessionsOf(u) ==
    {i \in 1..Len(host_sessions) :
        /\ host_sessions[i].user_id = u
        /\ host_sessions[i].status = "active"}

HostProfileOf(u) ==
    {i \in 1..Len(host_profiles) : host_profiles[i].user_id = u}

start_host_session(u, host_type) ==
    /\ Authenticated(u)
    /\ host_type \in HostType
    /\ IF ActiveSessionsOf(u) # {}
       THEN Reject("start_host_session", u, 0, host_type, 400)
       ELSE LET registered_at ==
                    IF HostProfileOf(u) = {} THEN now
                    ELSE host_profiles[First(HostProfileOf(u))].registered_at
                is_welcome_period == now - registered_at < welcome_period_days
                session_id == Len(host_sessions) + 1
            IN /\ host_profiles' =
                     IF HostProfileOf(u) = {}
                     THEN Append(host_profiles,
                              [user_id |-> u, registered_at |-> now,
                               total_live_minutes |-> 0,
                               total_stars_earned |-> 0])
                     ELSE host_profiles
               /\ host_sessions' = Append(host_sessions,
                      [session_id |-> session_id, user_id |-> u,
                       host_type |-> host_type, started_at |-> now,
                       duration_minutes |-> 0, stars_earned |-> 0,
                       is_welcome_period |-> is_welcome_period,
                       status |-> "active"])
               /\ Respond("start_host_session", u, session_id, host_type, 200)
               /\ UNCHANGED <<authColl, wallets, vip_status, wallet_transactions,
                              notifications, charity_wallet, withdrawalColl,
                              talents, gameColl, pkColl, agencyColl, eduColl,
                              exchangeColl, activity_sessions, inflight>>

\* the stars of a session of duration_minutes under the host policy
host_stars(host_type, is_welcome, duration_minutes) ==
    IF host_type = "video"
    THEN IF duration_minutes >= min_video_minutes
         THEN (duration_minutes \div 60)
                 * (IF is_welcome THEN welcome_video_reward_per_hour
                    ELSE normal_video_reward_per_hour)
         ELSE 0
    ELSE IF host_type = "audio"
    THEN IF is_welcome
         THEN IF duration_minutes >= min_audio_minutes
              THEN (duration_minutes \div 120) * welcome_audio_reward_per_2hours
              ELSE 0
         ELSE (duration_minutes \div 60) * normal_audio_reward_per_hour
    ELSE 0

\* the writes of end_host_session on the session found at position i
CompleteHostSession(u, i, elapsed) ==
    LET session == host_sessions[i]
        duration_minutes == (now - session.started_at) * 1440 + elapsed
        stars_earned == host_stars(session.host_type, session.is_welcome_period,
                                   duration_minutes)
    IN /\ host_sessions' =
             [j \in 1..Len(host_sessions) |->
                 IF j = First({k \in 1..Len(host_sessions) :
                                  host_sessions[k].session_id
                                     = session.session_id})
                 THEN [host_sessions[j] EXCEPT
                          !.duration_minutes = duration_minutes,
                          !.stars_earned = stars_earned,
                          !.status = "completed"]
                 ELSE host_sessions[j]]
       /\ IF stars_earned > 0
          THEN /\ wallets' = IncWallet(wallets, u, "stars_balance", stars_earned)
               /\ wallet_transactions' = Append(wallet_transactions,
                      [user_id |-> u, transaction_type |-> "host_reward",
                       amount |-> stars_earned, currency_type |-> "stars",
                       status |-> "completed",
                       reference_id |-> session.session_id])
               /\ host_profiles' =
                     IF HostProfileOf(u) = {} THEN host_profiles
                     ELSE [host_profiles EXCEPT
                              ![First(HostProfileOf(u))].total_live_minutes =
                                  @ + duration_minutes,
                              ![First(HostProfileOf(u))].total_stars_earned =
                                  @ + stars_earned]
               /\ notifications' = Append(notifications, Notif(u, "host_reward"))
          ELSE UNCHANGED <<wallets, wallet_transactions, host_profiles,
                           notifications>>
       /\ Respond("end_host_session", u, stars_earned, session.session_id, 200)
       /\ UNCHANGED <<authColl, vip_status, charity_wallet, withdrawalColl,
                      talents, gameColl, pkColl, agencyColl, eduColl,
                      exchangeColl, activity_sessions, inflight>>

\* end_host_session finding the session without the status filter
end_host_session_any_status(u, session_id, elapsed) ==
    /\ Authenticated(u)
    /\ elapsed \in ElapsedMinutes
    /\ LET found == {i \in 1..Len(host_sessions) :
                        /\ host_sessions[i].session_id = session_id
                        /\ host_sessions[i].user_id = u}
       IN IF found = {}
          THEN Reject("end_host_session", u, 0, session_id, 404)
          ELSE CompleteHostSession(u, First(found), elapsed)

end_host_session(u, session_id, elapsed) ==
    /\ Authenticated(u)
    /\ elapsed \in ElapsedMinutes
    /\ LET found == {i \in 1..Len(host_sessions) :
                        /\ host_sessions[i].session_id = session_id
                        /\ host_sessions[i].user_id = u
                        /\ host_sessions[i].status = "active"}
       IN IF found = {}
          THEN Reject("end_host_session", u, 0, session_id, 404)
          ELSE CompleteHostSession(u, First(found), elapsed)

NextHost ==
    \/ \E u \in DOMAIN users, t \in HostType : start_host_session(u, t)
    \/ \E u \in DOMAIN users, id \in 1..(Len(host_sessions) + 1),
          e \in ElapsedMinutes : end_host_session(u, id, e)
    \/ now < MaxHostDay /\ advance_clock(welcome_period_days)

\* the database after exchange_session of a@x and of b@x
InitHost ==
    /\ users = ("user_1" :> [email |-> "a@x", via |-> "session"])
               @@ ("user_2" :> [email |-> "b@x", via |-> "session"])
    /\ wallets = [u \in {"user_1", "user_2"} |-> NewWallet]
    /\ vip_status = [u \in {"user_1", "user_2"} |->
          [vip_level |-> 0, total_recharged |-> 0, is_active |-> FALSE]]
    /\ user_sessions = << [user_id |-> "user_1", session_token |-> "a@x",
                           expires_at |-> SESSION_DAYS],
                          [user_id |-> "user_2", session_token |-> "b@x",
                           expires_at |-> SESSION_DAYS] >>
    /\ wallet_transactions = <<>>
    /\ notifications =
          [i \in 1..2 |->
              [notification_id |-> i, user_id |-> UserIds[i],
               notification_type |-> "welcome", is_read |-> FALSE]]
    /\ charity_wallet = 0
    /\ payment_methods = <<>>
    /\ withdrawals = <<>>
    /\ talents = <<>>
    /\ lucky_wallet_challenges = <<>>
    /\ inserted = [c \in WriteOnlyCollections |-> 0]
    /\ logic_pk_challenges = <<>>
    /\ logic_pk_history = <<>>
    /\ inflight = <<>>
    /\ last = [op |-> "exchange_session", user |-> "", amount |-> 0,
               aux |-> "b@x", status |-> 200]
    /\ now = 0
    /\ agency_status = <<>>
    /\ referrals = <<>>
    /\ course_enrollments = <<>>
    /\ courses_completed = <<>>
    /\ star_exchanges = <<>>
    /\ platform_stats = [exchange_fees_collected |-> 0,
                         total_stars_exchanged |-> 0, total_coins_issued |-> 0]
    /\ activity_sessions = <<>>
    /\ host_sessions = <<>>
    /\ host_profiles = <<>>
    /\ remaining = MaxHostRequests

SpecHost == InitHost /\ [][NextHost]_vars

\* ================================================================== claims
SubBalances == {"coins_balance", "stars_balance", "bonus_balance",
                "withdrawable_balance"}

\* the log after a step is the log before it plus n new records
Appended(old, new, n) ==
    /\ Len(new) = Len(old) + n
    /\ SubSeq(new, 1, Len(old)) = old

\* C1: under sequential execution every wallet's coins, stars, bonus and
\* withdrawable balance is >= 0 after any sequence of wallet operations.
C1_NonNegativeBalances ==
    \A u \in DOMAIN wallets : \A f \in SubBalances : wallets[u][f] >= 0

\* the sub-balance a debit request draws on, and the amount it asks to debit
DebitOps == {"withdraw", "transfer_balance", "convert_stars_to_coins",
             "create_withdrawal_request", "send_gift", "play_lucky_wallet"}

DebitField(req) ==
    CASE req.op = "withdraw" -> "withdrawable_balance"
      [] req.op = "transfer_balance" -> BalanceField(req.aux[1])
      [] req.op \in {"convert_stars_to_coins", "create_withdrawal_request"}
            -> "stars_balance"
      [] OTHER -> "coins_balance"

DebitAmount(req) ==
    IF req.op = "send_gift"
    THEN IF req.aux[1] \in DOMAIN SIGNATURE_GIFTS
         THEN SIGNATURE_GIFTS[req.aux[1]] * req.amount
         ELSE 0
    ELSE req.amount

\* C2: a withdraw, transfer_balance, convert_stars_to_coins,
\* create_withdrawal_request, send_gift or play_lucky_wallet request whose debit
\* exceeds the caller's source sub-balance is answered with an error status and
\* changes no wallet, transaction, notification or other record.
C2_InsufficientBalanceRejected ==
    [][(/\ last'.op \in DebitOps
        /\ last'.user \in DOMAIN wallets
        /\ DebitField(last') \in SubBalances
        /\ DebitAmount(last') > wallets[last'.user][DebitField(last')])
        => (last'.status >= 400 /\ UNCHANGED Ledger)]_vars

C2_Witness ==
    /\ last.op = "withdraw" /\ last.status = 400 /\ last.amount = 301
    /\ last.user \in DOMAIN wallets
    /\ wallets[last.user].withdrawable_balance = 300

\* C3 (as claimed): every deposit of an amount a > 0 by a caller with a wallet
\* adds exactly a to coins_balance, appends exactly one transaction record of
\* amount +a and leaves the other sub-balances unchanged.
DepositApplied(u, a) ==
    /\ wallets'[u].coins_balance = wallets[u].coins_balance + a
    /\ \A f \in SubBalances \ {"coins_balance"} : wallets'[u][f] = wallets[u][f]
    /\ Appended(wallet_transactions, wallet_transactions', 1)
    /\ LET t == wallet_transactions'[Len(wallet_transactions')]
       IN t.user_id = u /\ t.amount = a /\ t.transaction_type = "deposit"

C3_EveryPositiveDeposit ==
    [][(last'.op = "deposit" /\ last'.user \in DOMAIN wallets /\ last'.amount > 0)
        => DepositApplied(last'.user, last'.amount)]_vars

\* C3 (amended): a deposit of 0 < a <= 100000 by a caller with a wallet adds
\* exactly a to coins_balance, appends exactly one transaction record of amount
\* +a and leaves the other sub-balances unchanged; a deposit of a > 100000 is
\* rejected with status 400 and changes nothing.
C3_DepositWithinCap ==
    [][(last'.op = "deposit" /\ last'.user \in DOMAIN wallets /\ last'.amount > 0)
        => IF last'.amount <= 100000
           THEN last'.status = 200 /\ DepositApplied(last'.user, last'.amount)
           ELSE last'.status = 400 /\ UNCHANGED Ledger]_vars

C3_Witness ==
    /\ last.op = "deposit" /\ last.status = 200 /\ last.amount = 100000
    /\ wallets[last.user].coins_balance = 101000

\* C4: every step that changes a sub-balance of a wallet appends exactly one
\* wallet_transactions record for each wallet it changes, and never modifies
\* or deletes an existing record.
ChangedWallets ==
    {u \in DOMAIN wallets :
        \E f \in SubBalances : wallets'[u][f] # wallets[u][f]}

C4_EveryChangeLogged ==
    [][/\ Len(wallet_transactions') >= Len(wallet_transactions)
       /\ SubSeq(wallet_transactions', 1, Len(wallet_transactions))
             = wallet_transactions
       /\ \A u \in ChangedWallets :
             Cardinality({i \in (Len(wallet_transactions) + 1)
                                   ..Len(wallet_transactions') :
                             wallet_transactions'[i].user_id = u}) = 1]_vars

\* C5: a Logic PK challenge is created pending; it becomes in_progress only
\* from pending, by accept_logic_pk_challenge of its opponent; it becomes
\* completed only from in_progress with both answers stored; it never goes
\* from pending to completed.
C5_PKLifecycle ==
    [][\A c \in 1..Len(logic_pk_challenges') :
          IF c > Len(logic_pk_challenges)
          THEN logic_pk_challenges'[c].status = "pending"
          ELSE LET old == logic_pk_challenges[c]
                   new == logic_pk_challenges'[c]
               IN old.status # new.status =>
                    \/ /\ old.status = "pending" /\ new.status = "in_progress"
                       /\ last'.op = "accept_logic_pk_challenge"
                       /\ last'.user = old.opponent_id
                    \/ /\ old.status = "in_progress" /\ new.status = "completed"
                       /\ Truthy(new.challenger_answer)
                       /\ Truthy(new.opponent_answer)]_vars

\* C6: once a Logic PK challenge is completed no later request changes its
\* answers, its winner or its status, and a submit_logic_pk_answer for it
\* changes no wallet balance.
C6_CompletedIsFinal ==
    [][\A c \in 1..Len(logic_pk_challenges) :
          logic_pk_challenges[c].status = "completed" =>
             /\ logic_pk_challenges'[c] = logic_pk_challenges[c]
             /\ (last'.op = "submit_logic_pk_answer" /\ last'.aux = c)
                   => wallets' = wallets]_vars

\* C7: a withdrawal that is processing moves to one of the terminal states
\* completed, rejected or cancelled: while requests are still served, some
\* request takes it there.
TerminalStatuses == WithdrawalStatus \ {"pending", "processing"}

C7_ProcessingReachesTerminal ==
    \A w \in 1..Len(withdrawals) :
        (withdrawals[w].status = "processing" /\ remaining > 0)
           => ENABLED (NextWd /\ withdrawals'[w].status \in TerminalStatuses)

\* the debit a request in flight applies to the sub-balance it read
RaceField(r) ==
    IF r.op = "withdraw" THEN "withdrawable_balance" ELSE "coins_balance"

RaceDebit(r) ==
    IF r.op = "withdraw" THEN r.amount
    ELSE -LuckyOutcome(r.amount, r.random_number).balance_change

Updated(r) == r.pc # "update"

BalanceOps == {"deposit", "withdraw", "transfer_balance", "convert_stars_to_coins",
               "send_gift", "play_lucky_wallet", "play_mind_game"}

C9_WalletNotFound ==
    [][(last'.op \in BalanceOps /\ last'.user \notin DOMAIN wallets)
        => (last'.status = 404 /\ UNCHANGED Ledger)]_vars

\* C10: after any sequence of exchange_session and free_user_registration
\* calls every user record has a wallet document, and every user that can
\* authenticate has a wallet.
C10_OneWalletPerUser ==
    /\ \A u \in DOMAIN users : u \in DOMAIN wallets
    /\ \A u \in DOMAIN users : Authenticated(u) => u \in DOMAIN wallets

\* t is the greatest threshold of the table that is <= v
GreatestAtMost(thresholds, v, t) ==
    /\ t \in thresholds
    /\ t <= v
    /\ \A s \in thresholds : s <= v => s <= t

VipThresholds ==
    {VIP_LEVELS_DATA[i].recharge_requirement : i \in 1..Len(VIP_LEVELS_DATA)}

LearningThresholds == {LEARNING_LEVELS[l] : l \in DOMAIN LEARNING_LEVELS}

\* C11: the eligible VIP level of a total_recharged value and the education
\* level of a total_learning_hours value are the tier whose threshold is the
\* greatest one <= the value, and the value 0 yields the lowest tier.
C11_TierOfValue ==
    /\ last.op = "EligibleVipLevel" =>
          /\ \E i \in 1..Len(VIP_LEVELS_DATA) :
                /\ VIP_LEVELS_DATA[i].level = last.aux
                /\ GreatestAtMost(VipThresholds, last.amount,
                                  VIP_LEVELS_DATA[i].recharge_requirement)
          /\ last.amount = 0 => last.aux = 0
    /\ last.op = "LearningLevel" =>
          /\ GreatestAtMost(LearningThresholds, last.amount,
                            LEARNING_LEVELS[last.aux])
          /\ last.amount = 0 => last.aux = "seedling"

C11_Witness ==
    last.op = "LearningLevel" /\ last.amount = 25 /\ last.aux = "tree"

\* C12 (as claimed): get_agent_level(e) is a level whose monthly_threshold is
\* the greatest threshold <= e, and get_agent_level(0) is level 0 (Member).
AgentThreshold(l) == AGENCY_LEVELS[l].monthly_threshold

C12_AgentLevelLowestAtZero ==
    last.op = "get_agent_level" =>
        /\ WideLeq(AgentThreshold(last.aux), last.amount)
        /\ \A l \in DOMAIN AGENCY_LEVELS :
              WideLeq(AgentThreshold(l), last.amount)
                 => WideLeq(AgentThreshold(l), AgentThreshold(last.aux))
        /\ last.amount = <<0, 0>> => last.aux = 0

\* C12 (amended): get_agent_level(e) is the highest level whose
\* monthly_threshold is <= e; levels 0 and 1 both have threshold 0, so
\* get_agent_level(0) is level 1 (Agent Level 1), not level 0 (Member).
C12_HighestLevelReached ==
    last.op = "get_agent_level" =>
        /\ WideLeq(AgentThreshold(last.aux), last.amount)
        /\ \A l \in DOMAIN AGENCY_LEVELS :
              WideLeq(AgentThreshold(l), last.amount) => l <= last.aux
        /\ last.amount = <<0, 0>> => last.aux = 1

C12_Witness ==
    last.op = "get_agent_level" /\ last.amount = <<0, 0>> /\ last.aux = 1

\* the brackets whose range min..max holds e
Containing(e) ==
    {i \in 1..Len(COMMISSION_BRACKETS) :
        /\ WideLeq(COMMISSION_BRACKETS[i].min, e)
        /\ WideLeq(e, COMMISSION_BRACKETS[i].max)}

\* C13 (as claimed): get_commission_rate is 4 at 2,000,000 and 8 at 2,000,001,
\* every bracket's upper bound is inclusive, and every earnings value >= 0 is
\* in exactly one bracket.
C13_ExactlyOneBracket ==
    last.op = "get_commission_rate" =>
        /\ last.amount = <<2, 0>> => last.aux.rate = 4
        /\ last.amount = <<2, 1>> => last.aux.rate = 8
        /\ \A i \in 1..Len(COMMISSION_BRACKETS) :
              last.amount = COMMISSION_BRACKETS[i].max => last.aux.bracket = i
        /\ Cardinality(Containing(last.amount)) = 1

\* C13 (amended): get_commission_rate is 4 at 2,000,000 and 8 at 2,000,001,
\* every bracket's upper bound is inclusive, and every integer earnings value
\* from 0 to 999,999,999,999 is in exactly one bracket, whose rate is returned;
\* a value above 999,999,999,999 is in no bracket and gets rate 20.
C13_BracketsUpToMax ==
    last.op = "get_commission_rate" =>
        /\ last.amount = <<2, 0>> => last.aux.rate = 4
        /\ last.amount = <<2, 1>> => last.aux.rate = 8
        /\ \A i \in 1..Len(COMMISSION_BRACKETS) :
              last.amount = COMMISSION_BRACKETS[i].max => last.aux.bracket = i
        /\ IF WideLeq(last.amount,
                      COMMISSION_BRACKETS[Len(COMMISSION_BRACKETS)].max)
           THEN /\ Containing(last.amount) = {last.aux.bracket}
                /\ last.aux.rate = COMMISSION_BRACKETS[last.aux.bracket].rate
           ELSE /\ Containing(last.amount) = {}
                /\ last.aux.rate = 20

C13_Witness ==
    /\ last.op = "get_commission_rate"
    /\ last.amount = <<2, 0>>
    /\ last.aux.rate = 4

\* C14 (as claimed): the eligible VIP level is 1 (Bronze) for a total_recharged
\* of 4,999 and 3 (Gold) for 5,000.
C14_BronzeBelowGold ==
    last.op = "EligibleVipLevel" =>
        /\ last.amount = 4999 => last.aux = 1
        /\ last.amount = 5000 => last.aux = 3

\* C14 (amended): the eligible VIP level is 2 (Silver, requirement 2,000) for
\* a total_recharged of 4,999 and 3 (Gold) for 5,000.
C14_SilverBelowGold ==
    last.op = "EligibleVipLevel" =>
        /\ last.amount = 4999 => last.aux = 2
        /\ last.amount = 5000 => last.aux = 3

C14_Witness ==
    last.op = "EligibleVipLevel" /\ last.amount = 4999 /\ last.aux = 2

AtLimit(lo, hi) ==
    /\ last'.amount \in {lo, hi} => last'.status = 200
    /\ last'.amount \in {lo - 1, hi + 1} =>
          (last'.status = 400 /\ UNCHANGED Ledger)

LuckyLimits ==
    (/\ last'.op = "play_lucky_wallet"
     /\ last'.user \in DOMAIN wallets
     /\ wallets[last'.user].coins_balance >= last'.amount)
    => AtLimit(min_bet, max_bet)

\* C16 (as claimed): for a user whose coins balance is at least the bet, a
\* play_lucky_wallet or create_logic_pk_challenge bet equal to the minimum or
\* the maximum is accepted, and a bet one unit below the minimum or above the
\* maximum is rejected with no state change.
C16_LimitsWithCoveredBet ==
    [][/\ LuckyLimits
       /\ (/\ last'.op = "create_logic_pk_challenge"
           /\ last'.user \in DOMAIN wallets
           /\ wallets[last'.user].coins_balance >= last'.amount)
          => AtLimit(MIN_BET, MAX_BET)]_vars

\* C16 (amended): the same for play_lucky_wallet; for
\* create_logic_pk_challenge a bet at the minimum or the maximum is accepted
\* when the coins balance is at least five times the bet (the bet is at most
\* 20% of the balance) and the user has fewer than 3 recorded losses, and a
\* bet one unit outside the limits is rejected with no state change.
C16_LimitsWithinFifth ==
    [][/\ LuckyLimits
       /\ (/\ last'.op = "create_logic_pk_challenge"
           /\ last'.user \in DOMAIN wallets
           /\ wallets[last'.user].coins_balance >= 5 * last'.amount
           /\ recent_losses(last'.user) < 3)
          => AtLimit(MIN_BET, MAX_BET)]_vars

C16_Witness ==
    /\ last.op = "create_logic_pk_challenge" /\ last.status = 200
    /\ last.amount = 1000
    /\ logic_pk_challenges # <<>>

\* C17: mark_notification_read on a notification of the caller that is already
\* read answers 200 and leaves every collection as it was, so a second call
\* changes nothing the first did.
C17_MarkReadIdempotent ==
    [][(/\ last'.op = "mark_notification_read"
        /\ last'.aux \in 1..Len(notifications)
        /\ notifications[last'.aux].user_id = last'.user
        /\ notifications[last'.aux].is_read)
       => (last'.status = 200 /\ UNCHANGED Ledger)]_vars

\* the third request of a run with one session and one notification: the
\* notification was read by the second request and is marked read again
C17_Witness ==
    /\ last.op = "mark_notification_read" /\ last.status = 200 /\ last.aux = 1
    /\ remaining = MaxNotifRequests - 3
    /\ Len(user_sessions) = 1
    /\ Len(notifications) = 1
    /\ notifications[1].is_read

\* C18: a step changes an existing notification only if it is
\* mark_notification_read or mark_all_notifications_read by the notification's
\* owner, and then only by setting is_read to true; is_read never returns to
\* false and no notification is deleted.
C18_NotificationFrame ==
    [][/\ Len(notifications') >= Len(notifications)
       /\ \A i \in 1..Len(notifications) :
             /\ notifications[i].is_read => notifications'[i].is_read
             /\ notifications'[i] # notifications[i] =>
                   /\ last'.op \in {"mark_notification_read",
                                    "mark_all_notifications_read"}
                   /\ notifications[i].user_id = last'.user
                   /\ notifications'[i]
                         = [notifications[i] EXCEPT !.is_read = TRUE]]_vars

C18_Witness ==
    /\ last.op = "mark_all_notifications_read"
    /\ \E i, j \in 1..Len(notifications) :
          /\ notifications[i].user_id = last.user /\ notifications[i].is_read
          /\ notifications[j].user_id # last.user /\ ~notifications[j].is_read

\* a stored session with the token that refers to u and has not expired
ValidSession(session_token, u) ==
    \E i \in 1..Len(user_sessions) :
        /\ user_sessions[i].session_token = session_token
        /\ user_sessions[i].user_id = u
        /\ user_sessions[i].expires_at >= now

\* C19: a request is served as user u only if a session stored under its token
\* refers to u and has expires_at not earlier than the current time; a request
\* with no token, with a token no session is stored under, or with a token
\* whose sessions have all expired is answered 401, and a request answered 401
\* changes no collection.
C19_AuthenticatedBySession ==
    [][(remaining' # remaining /\ last'.op \in {"get_me", "deposit"}) =>
         /\ (last'.op = "get_me" /\ last'.status = 200)
               => ValidSession(last'.aux, last'.user)
         /\ (last'.op = "deposit" /\ last'.status # 401)
               => \E t \in SessionTokens : ValidSession(t, last'.user)
         /\ (last'.op = "get_me"
             /\ \A u \in DOMAIN users : ~ValidSession(last'.aux, u))
               => last'.status = 401
         /\ last'.status = 401 => UNCHANGED Ledger]_vars

\* a deposit carrying the token of a session that has expired is answered 401
C19_Witness ==
    /\ last.op = "deposit" /\ last.status = 401
    /\ \E i \in 1..Len(user_sessions) :
          /\ user_sessions[i].session_token = last.aux
          /\ user_sessions[i].expires_at < now

\* the referral records in which u is the referred party
ReferredRecords(u) == {i \in 1..Len(referrals) : referrals[i].referred_id = u}

\* C20: after every apply_referral_code each user is the referred party of at
\* most one referral and no referral has the same user on both sides; a call by
\* a user who already has a referrer, or with the code of the caller's own
\* agency document, is answered 400 and changes no collection.
C20_ReferralOnce ==
    [][last'.op = "apply_referral_code" =>
         /\ \A u \in DOMAIN users' : Cardinality(ReferredRecords(u)') <= 1
         /\ \A i \in 1..Len(referrals') :
               referrals'[i].referrer_id # referrals'[i].referred_id
         /\ (\/ ReferredRecords(last'.user) # {}
             \/ \E i \in AgencyOf(last'.user) :
                   agency_status[i].referral_code = Upper(last'.aux))
               => (last'.status = 400 /\ UNCHANGED Ledger)]_vars

\* a second application by a user who has a referrer is answered 400
C20_Witness ==
    /\ last.op = "apply_referral_code" /\ last.status = 400
    /\ ReferredRecords(last.user) # {}
    /\ \A i \in AgencyOf(last.user) :
          agency_status[i].referral_code # Upper(last.aux)

RECURSIVE SumOver(_, _)
SumOver(S, f) ==
    IF S = {} THEN 0
    ELSE LET x == CHOOSE y \in S : TRUE IN f[x] + SumOver(S \ {x}, f)

\* the gift requests whose progress is one of the awaits in At
GiftsAt(At) == {i \in 1..Len(inflight) : Progress(inflight[i]) \in At}
GiftsAfterDebit == GiftsAt({"update_receiver", "records", "notify", "done"})
GiftsAfterCredit == GiftsAt({"records", "notify", "done"})
GiftsAfterRecords == GiftsAt({"notify", "done"})

\* C21: every gift request, failed or not, has left exactly the writes it made
\* before the await it reached. A request that failed after the sender's debit
\* and before the receiver's credit counts among the debits and never among
\* the credits, the charity pool or the transaction log, in every later state.
C21_PartialGiftStays ==
    /\ \A u \in DOMAIN wallets :
          /\ wallets[u].coins_balance = NewWallet.coins_balance
                - SumOver({i \in GiftsAfterDebit : inflight[i].user = u},
                          [i \in 1..Len(inflight) |-> inflight[i].total_cost])
          /\ wallets[u].stars_balance =
                SumOver({i \in GiftsAfterCredit : inflight[i].receiver_id = u},
                        [i \in 1..Len(inflight) |->
                            inflight[i].total_cost - inflight[i].charity_amount])
    /\ charity_wallet =
          SumOver(GiftsAfterRecords,
                  [i \in 1..Len(inflight) |-> inflight[i].charity_amount])
    /\ Len(wallet_transactions) = 2 * Cardinality(GiftsAfterRecords)

\* a gift failed between the debit and the credit, and the run has ended
C21_Witness ==
    /\ remaining = 0
    /\ \E i \in 1..Len(inflight) :
          /\ inflight[i].pc = "failed"
          /\ inflight[i].failed_at = "update_receiver"
          /\ \A j \in 1..Len(inflight) : inflight[j].pc \in {"failed", "done"}
          /\ wallets[inflight[i].user].coins_balance < NewWallet.coins_balance

\* the challenges a step completes from in_progress with a single winner
CompletedWithWinner(c) ==
    /\ c \in 1..Len(logic_pk_challenges)
    /\ logic_pk_challenges[c].status = "in_progress"
    /\ logic_pk_challenges'[c].status = "completed"
    /\ logic_pk_challenges'[c].winner_id \notin {None, "tie"}

\* C22: when an accepted challenge with bet b completes with a single winner,
\* the coins credited to the two participants together are at most the pot
\* 2*b, and the loser is credited less than the stake b the loser put in, so
\* the loser ends below the balance held before staking.
C22_PayoutWithinPot ==
    [][\A c \in 1..Len(logic_pk_challenges) :
          CompletedWithWinner(c) =>
             LET ch == logic_pk_challenges'[c]
                 loser_id == IF ch.winner_id = ch.challenger_id
                             THEN ch.opponent_id ELSE ch.challenger_id
                 Credited(u) == wallets'[u].coins_balance - wallets[u].coins_balance
             IN /\ ch.challenger_id # ch.opponent_id
                   => Credited(ch.challenger_id) + Credited(ch.opponent_id)
                         <= 2 * ch.bet_amount
                /\ Credited(loser_id) < ch.bet_amount]_vars

\* the challenges in which u has a stake that is not yet released: the
\* challenger stakes at creation, the opponent at acceptance
ChallengerStakes(u) ==
    {c \in 1..Len(logic_pk_challenges) :
        /\ logic_pk_challenges[c].challenger_id = u
        /\ logic_pk_challenges[c].status \in {"pending", "in_progress"}}
OpponentStakes(u) ==
    {c \in 1..Len(logic_pk_challenges) :
        /\ logic_pk_challenges[c].opponent_id = u
        /\ logic_pk_challenges[c].status = "in_progress"}
BetAmounts ==
    [c \in 1..Len(logic_pk_challenges) |-> logic_pk_challenges[c].bet_amount]

\* C23: each wallet's held_balance is >= 0 and is the sum of the bets its user
\* has staked, as challenger or as opponent, in challenges that are not
\* completed.
C23_HeldIsOpenStakes ==
    \A u \in DOMAIN wallets :
        /\ wallets[u].held_balance >= 0
        /\ wallets[u].held_balance =
              SumOver(ChallengerStakes(u), BetAmounts)
              + SumOver(OpponentStakes(u), BetAmounts)

\* participant p of the challenge has an answer stored
AnsweredBy(challenge, p) ==
    \/ p = challenge.challenger_id /\ challenge.challenger_answer # None
    \/ p = challenge.opponent_id /\ challenge.opponent_answer # None

\* C24: when an answer is submitted to an accepted challenge and with it both
\* participants have submitted one, the challenge is completed and each
\* participant's stake has left held_balance.
C24_BothAnsweredCompletes ==
    [][\A c \in 1..Len(logic_pk_challenges) :
          LET old == logic_pk_challenges[c]
              new == logic_pk_challenges'[c]
          IN (/\ last'.op = "submit_logic_pk_answer"
              /\ last'.status = 200
              /\ last'.aux = c
              /\ remaining' # remaining
              /\ old.status = "in_progress"
              /\ AnsweredBy(new, new.challenger_id)
              /\ AnsweredBy(new, new.opponent_id))
             => /\ new.status = "completed"
                /\ wallets'[new.challenger_id].held_balance
                      < wallets[new.challenger_id].held_balance
                /\ wallets'[new.opponent_id].held_balance
                      < wallets[new.opponent_id].held_balance]_vars

\* C25: the balance write of play_lucky_wallet adds the game's balance_change
\* to the balance the wallet has at the write, so that a deposit committed
\* since the request read the wallet is still in the balance afterwards.
C25_CreditPreserved ==
    [][\A i \in 1..Len(inflight) :
          (/\ inflight[i].op = "play_lucky_wallet"
           /\ ~Updated(inflight[i])
           /\ Updated(inflight'[i]))
          => wallets'[inflight[i].user].coins_balance
                = wallets[inflight[i].user].coins_balance
                  + LuckyOutcome(inflight[i].amount,
                                 inflight[i].random_number).balance_change]_vars

\* C26: after logout with token t, and until an exchange_session stores t
\* again, a request presenting t is not authenticated: in every state whose
\* last served request is that logout, get_current_user answers 401 for t.
C26_LogoutEndsToken ==
    (last.op = "logout" /\ last.aux # "")
        => get_current_user(last.aux).status = 401

\* C27: no enrollment has more lessons completed than total_lessons, and a
\* user's courses_completed is at most the number of that user's enrollments,
\* each of which awards the completion bonus at most once.
C27_BonusOncePerCourse ==
    /\ \A i \in 1..Len(course_enrollments) :
          course_enrollments[i].lessons_completed
             <= course_enrollments[i].total_lessons
    /\ \A u \in DOMAIN courses_completed :
          courses_completed[u] <=
             Cardinality({i \in 1..Len(course_enrollments) :
                             course_enrollments[i].user_id = u})

\* the clock counts days from the first day of a month of 31 days
MonthOf(day) == day \div 31

\* the stars user u exchanged in the exchanges created on one of Days
ExchangedIn(u, Days) ==
    SumOver({i \in 1..Len(star_exchanges) :
                /\ star_exchanges[i].user_id = u
                /\ star_exchanges[i].created_at \in Days},
            [i \in 1..Len(star_exchanges) |-> star_exchanges[i].stars_exchanged])

\* the daily half of the limits alone
DailyLimitRespected ==
    \A u \in DOMAIN users :
        \A d \in 0..now : ExchangedIn(u, {d}) <= daily_limit

\* C28: the stars one user exchanges within one day never exceed daily_limit
\* and the stars one user exchanges within one calendar month never exceed
\* monthly_limit.
C28_ExchangeLimits ==
    \A u \in DOMAIN users :
        /\ \A d \in 0..now : ExchangedIn(u, {d}) <= daily_limit
        /\ \A d \in 0..now :
              ExchangedIn(u, {e \in 0..now : MonthOf(e) = MonthOf(d)})
                 <= monthly_limit

\* the coins claim_activity_reward credited for the day of one activity record
DayCoins(a) ==
    coins_reward * a.rewards_claimed
        + (IF a.rewards_claimed > 0 THEN daily_bonus_coins ELSE 0)

ActivitiesOf(u) ==
    {i \in 1..Len(activity_sessions) : activity_sessions[i].user_id = u}

\* one record per user and day, its claims within the earned and the daily
\* maximum, and the wallet holding 200 per claim plus 50 once per day
ActivityLedgerOk ==
    /\ \A i, j \in 1..Len(activity_sessions) :
          (/\ activity_sessions[i].user_id = activity_sessions[j].user_id
           /\ activity_sessions[i].date = activity_sessions[j].date) => i = j
    /\ \A i \in 1..Len(activity_sessions) :
          activity_sessions[i].rewards_claimed
             <= Min(max_daily_rewards,
                    activity_sessions[i].total_active_minutes
                        \div minutes_required)
    /\ \A u \in DOMAIN wallets :
          wallets[u].coins_balance = NewWallet.coins_balance
             + SumOver(ActivitiesOf(u),
                       [i \in 1..Len(activity_sessions) |->
                           DayCoins(activity_sessions[i])])

\* a claim is paid exactly when a reward is left for today; a paid claim adds
\* one to rewards_claimed and a rejected one changes no stored document
ClaimStep ==
    (last'.op = "claim_activity_reward" /\ remaining' # remaining) =>
        LET u == last'.user
            i == ActivityOf(u)
            left == IF i = 0 THEN 0
                    ELSE Min(max_daily_rewards,
                             activity_sessions[i].total_active_minutes
                                 \div minutes_required)
                         - activity_sessions[i].rewards_claimed
        IN IF left > 0
           THEN /\ last'.status = 200
                /\ activity_sessions'[i].rewards_claimed
                      = activity_sessions[i].rewards_claimed + 1
                /\ wallets'[u].coins_balance - wallets[u].coins_balance
                      = last'.amount
                /\ last'.amount = IF activity_sessions[i].rewards_claimed = 0
                                  THEN coins_reward + daily_bonus_coins
                                  ELSE coins_reward
           ELSE /\ last'.status = 400
                /\ UNCHANGED Ledger

\* C29: for each user and day rewards_claimed <= min(6, total_active_minutes
\* div 15); a claim beyond that is rejected with no wallet change; the coins
\* credited for the day are 200 per claim plus 50 once for the first claim.
C29_ActivityRewards == []ActivityLedgerOk /\ [][ClaimStep]_vars

\* six rewards claimed in a day of at least 105 active minutes, the wallet
\* holding 6 * 200 + 50 coins more, and a seventh claim rejected
C29_Witness ==
    /\ last.op = "claim_activity_reward"
    /\ last.status = 400
    /\ ActivityOf(last.user) # 0
    /\ activity_sessions[ActivityOf(last.user)].rewards_claimed
          = max_daily_rewards
    /\ activity_sessions[ActivityOf(last.user)].total_active_minutes
          >= 7 * minutes_required
    /\ wallets[last.user].coins_balance
          = NewWallet.coins_balance + 6 * coins_reward + daily_bonus_coins

HostRewardsFor(session_id) ==
    {i \in 1..Len(wallet_transactions) :
        /\ wallet_transactions[i].transaction_type = "host_reward"
        /\ wallet_transactions[i].reference_id = session_id}

\* at most one active session per user, and for every session at most one
\* reward, of its stars_earned, which the wallet of its host holds
HostLedgerOk ==
    /\ \A u \in DOMAIN users : Cardinality(ActiveSessionsOf(u)) <= 1
    /\ \A i \in 1..Len(host_sessions) :
          /\ Cardinality(HostRewardsFor(host_sessions[i].session_id)) <= 1
          /\ \A t \in HostRewardsFor(host_sessions[i].session_id) :
                /\ host_sessions[i].status = "completed"
                /\ wallet_transactions[t].amount = host_sessions[i].stars_earned
                /\ wallet_transactions[t].user_id = host_sessions[i].user_id
    /\ \A u \in DOMAIN wallets :
          wallets[u].stars_balance =
             SumOver({i \in 1..Len(host_sessions) :
                         host_sessions[i].user_id = u},
                     [i \in 1..Len(host_sessions) |->
                         host_sessions[i].stars_earned])

\* end_host_session succeeds exactly on an active session of the caller,
\* completes that session and no other, and credits its stars; a rejected call
\* changes no stored document
EndStep ==
    (last'.op = "end_host_session" /\ remaining' # remaining) =>
        LET u == last'.user
            id == last'.aux
            mine == {i \in ActiveSessionsOf(u) :
                        host_sessions[i].session_id = id}
        IN IF mine # {}
           THEN /\ last'.status = 200
                /\ \A i \in 1..Len(host_sessions) :
                      IF i \in mine
                      THEN /\ host_sessions'[i].status = "completed"
                           /\ host_sessions'[i].stars_earned = last'.amount
                      ELSE host_sessions'[i] = host_sessions[i]
                /\ Len(host_sessions') = Len(host_sessions)
                /\ wallets'[u].stars_balance
                      = wallets[u].stars_balance + last'.amount
                /\ \A v \in DOMAIN wallets \ {u} : wallets'[v] = wallets[v]
           ELSE /\ last'.status = 404
                /\ UNCHANGED Ledger

\* C30: each user has at most one host session with status active;
\* end_host_session succeeds only on the caller's active session and moves it
\* to completed; the stars earned for a session are credited at most once.
C30_HostSessions == []HostLedgerOk /\ [][EndStep]_vars

\* a session completed with stars credited once, then a second
\* end_host_session on it rejected
C30_Witness ==
    /\ last.op = "end_host_session"
    /\ last.status = 404
    /\ \E i \in 1..Len(host_sessions) :
          /\ host_sessions[i].session_id = last.aux
          /\ host_sessions[i].user_id = last.user
          /\ host_sessions[i].status = "completed"
          /\ host_sessions[i].stars_earned > 0
          /\ wallets[last.user].stars_balance = host_sessions[i].stars_earned

====
